---- MODULE Spec2Model ----
(***************************************************************************)
(* Clustering, bracketing, data-matrix, blank-subtraction, normalisation,  *)
(* spectrum-selection, m/z-shift and spot-detection algorithms of          *)
(* tidyms/dartms.py and find_closest of tidyms/utils.py, modelled as state *)
(* machines.                                                               *)
(*                                                                         *)
(* Each function of the source is one record-valued variable that holds    *)
(* the function's arguments and locals under their source names, plus a    *)
(* field pc for the position in its loops.  A function that is not part of *)
(* the specification being checked stays Idle.                             *)
(*                                                                         *)
(* Numbers.  Masses and intensities are exact integers (fixed-point        *)
(* values); a quotient a/b is kept as the pair <<a, b>> and compared by    *)
(* cross-multiplication, so every comparison of the source is decided      *)
(* exactly (floating-point rounding is not modelled).  nan is the quotient *)
(* 0/0.                                                                    *)
(***************************************************************************)
EXTENDS Integers, Sequences, FiniteSets, TLC

VARIABLES crude, refine, collapse, bracket, blank, reindex, quality, consensus,
          normalize,
          topn, mzshift, chrono, findclosest

vars == <<crude, refine, collapse, bracket, blank, reindex, quality, consensus, normalize,
          topn, mzshift, chrono, findclosest>>

\* a function that is not running in the specification at hand
Idle == [pc |-> "idle"]

\* the factor 1E6 of every PPM computation
PPM == 1000000

\* numpy's nan: a float is kept as a quotient <<a, b>>, nan is 0 / 0
NaN == <<0, 0>>

IsNaN(x) == x[1] = 0 /\ x[2] = 0

\* Python's None, for an optional numeric argument (all are >= 0)
None == -1

(***************************************************************************)
(* numpy helpers                                                           *)
(***************************************************************************)
Range(s) == {s[i] : i \in 1..Len(s)}

Max(S) == CHOOSE x \in S : \A y \in S : y <= x

Min(S) == CHOOSE x \in S : \A y \in S : x <= y

Abs(x) == IF x < 0 THEN -x ELSE x

RECURSIVE SumTo(_, _)
\* np.sum(f[1..n]) / builtin sum
SumTo(f, n) == IF n = 0 THEN 0 ELSE SumTo(f, n - 1) + f[n]

\* np.sum over a whole array
Sum(s) == SumTo(s, Len(s))

\* np.sum(mask): the number of positions of 1..n satisfying P
Count(n, P(_)) == Cardinality({i \in 1..n : P(i)})

\* every sequence over S of length lo..hi
SeqsOf(S, lo, hi) == UNION {[1..n -> S] : n \in lo..hi}

RECURSIVE Perms(_)
\* the permutations of 1..n: n is put at a place i of a permutation of 1..n-1
Perms(n) ==
    IF n = 0 THEN {<<>>}
    ELSE UNION {{[j \in 1..n |-> IF j < i THEN p[j] ELSE IF j = i THEN n ELSE p[j - 1]] :
                    i \in 1..n} : p \in Perms(n - 1)}

\* np.argsort(s): an index order that sorts s ascending.  The default kind
\* (quicksort) is not stable, so equal keys may come out in any order.
ArgSorts(s) ==
    {p \in Perms(Len(s)) : \A i, j \in 1..Len(s) : i < j => s[p[i]] <= s[p[j]]}

\* np.argmax(s): the first index holding the largest value
ArgMax(s) == Min({i \in 1..Len(s) : \A j \in 1..Len(s) : s[j] <= s[i]})

\* np.argmin(s): the first index holding the smallest value
ArgMin(s) == Min({i \in 1..Len(s) : \A j \in 1..Len(s) : s[i] <= s[j]})

\* np.unique(s): the distinct values, ascending
RECURSIVE SortedSeq(_)
SortedSeq(S) == IF S = {} THEN <<>> ELSE <<Min(S)>> \o SortedSeq(S \ {Min(S)})

Unique(s) == SortedSeq(Range(s))

(***************************************************************************)
(* crude_cluster_mz_list                                                   *)
(***************************************************************************)
\* largest number of signals handed to crude_cluster_mz_list
MaxCrudeSignals == 4

\* masses (units of 1e-4 at m/z 100): 30 apart is a gap of exactly 30 ppm
\* above 1000000, 31 apart a gap of more than 30 ppm
CrudeMzValues == {1000000, 1000030, 1000061, 1000070}

CrudeThresholds == {0, 30}

\* diffsPPM > min_difference_ppm for the sorted neighbours lo <= hi:
\* (hi - lo) / lo * 1E6 > min_difference_ppm
GapMutant(lo, hi, min_difference_ppm) == (hi - lo) * PPM >= min_difference_ppm * lo

GapExceeds(lo, hi, min_difference_ppm) == (hi - lo) * PPM > min_difference_ppm * lo

\* the body of crude_cluster_mz_list, for the sorting order mzOrd that
\* np.argsort(mz) returned
crude_cluster_mz_listMutant(mz, min_difference_ppm, mzOrd) ==
    LET elems == Len(mz)
        mz_ == [i \in 1..elems |-> mz[mzOrd[i]]]
        diffs == [i \in 1..(elems - 1) |->
                    IF (mz_[i + 1] - mz_[i]) * PPM > min_difference_ppm * mz_[i] THEN 1 ELSE 0]
    IN  [i \in 1..elems |-> SumTo(diffs, i - 1)]

crude_cluster_mz_list(mz, min_difference_ppm, mzOrd) ==
    LET elems == Len(mz)
        mz_ == [i \in 1..elems |-> mz[mzOrd[i]]]
        diffs == [i \in 1..(elems - 1) |->
                    IF GapExceeds(mz_[i], mz_[i + 1], min_difference_ppm) THEN 1 ELSE 0]
        \* np.concatenate([[0], np.cumsum(diffs)])
        clust == [i \in 1..elems |-> SumTo(diffs, i - 1)]
        \* np.argsort(mzOrd): the inverse permutation of mzOrd
        back == [k \in 1..elems |-> CHOOSE i \in 1..elems : mzOrd[i] = k]
    IN  [k \in 1..elems |-> clust[back[k]]]

CrudeInit ==
    /\ \E mz \in SeqsOf(CrudeMzValues, 1, MaxCrudeSignals), thr \in CrudeThresholds :
          crude = [pc |-> "call", mz |-> mz, min_difference_ppm |-> thr, clust |-> <<>>,
                   id |-> None, part |-> <<>>, again |-> <<>>]
    /\ refine = Idle
    /\ collapse = Idle
    /\ bracket = Idle
    /\ blank = Idle
    /\ reindex = Idle
    /\ quality = Idle
    /\ consensus = Idle
    /\ normalize = Idle
    /\ topn = Idle
    /\ mzshift = Idle
    /\ chrono = Idle
    /\ findclosest = Idle

CrudeCluster ==
    /\ crude.pc = "call"
    /\ \E mzOrd \in ArgSorts(crude.mz) :
          crude' = [crude EXCEPT
                       !.clust = crude_cluster_mz_list(crude.mz, crude.min_difference_ppm, mzOrd),
                       !.pc = "done"]
    /\ UNCHANGED <<refine, collapse, bracket, blank, reindex, quality, consensus, normalize,
                   topn, mzshift, chrono, findclosest>>

\* the positions of the signals that the first call put into cluster id
CrudeMembers(id) == SortedSeq({p \in 1..Len(crude.clust) : crude.clust[p] = id})

\* a second call of crude_cluster_mz_list with the same threshold, on the
\* signals of one cluster of the first call
CrudeClusterPart ==
    /\ crude.pc = "done"
    /\ \E id \in Range(crude.clust) :
       \E mz \in {[k \in 1..Len(CrudeMembers(id)) |-> crude.mz[CrudeMembers(id)[k]]]} :
       \E mzOrd \in ArgSorts(mz) :
          crude' = [crude EXCEPT
                       !.id = id,
                       !.part = crude_cluster_mz_list(mz, crude.min_difference_ppm, mzOrd),
                       !.pc = "part"]
    /\ UNCHANGED <<refine, collapse, bracket, blank, reindex, quality, consensus, normalize,
                   topn, mzshift, chrono, findclosest>>

\* a second call of crude_cluster_mz_list with the same threshold, on all
\* signals of the first call
CrudeClusterAgain ==
    /\ crude.pc = "done"
    /\ \E mzOrd \in ArgSorts(crude.mz) :
          crude' = [crude EXCEPT
                       !.again = crude_cluster_mz_list(crude.mz, crude.min_difference_ppm, mzOrd),
                       !.pc = "again"]
    /\ UNCHANGED <<refine, collapse, bracket, blank, reindex, quality, consensus, normalize,
                   topn, mzshift, chrono, findclosest>>

CrudeNext == CrudeCluster \/ CrudeClusterPart \/ CrudeClusterAgain

SpecCrude == CrudeInit /\ [][CrudeNext]_vars

-----------------------------------------------------------------------------
\* C1 helpers: the distinct masses of the input and the gaps between
\* mass-consecutive signals that lie at or below mass m
CrudeMasses == Range(crude.mz)

CrudePred(m) == Max({x \in CrudeMasses : x < m})

CrudeGapsBelow(m) ==
    {x \in CrudeMasses :
        /\ x <= m
        /\ x # Min(CrudeMasses)
        /\ (x - CrudePred(x)) * PPM > crude.min_difference_ppm * CrudePred(x)}

\* C1: the id at every original position is the number of gaps greater than
\* min_difference_ppm below that signal in ascending mass order; hence ids
\* are exactly 0..k-1, non-decreasing with mass, none is -1, and two
\* mass-consecutive signals share an id iff their gap is <= the threshold.
C1_CrudeIdsCountGaps ==
    crude.pc = "done" =>
        LET n == Len(crude.mz)
            ids == crude.clust
        IN  /\ Len(ids) = n
            /\ \A p \in 1..n : ids[p] = Cardinality(CrudeGapsBelow(crude.mz[p]))
            /\ \A p \in 1..n : ids[p] >= 0
            /\ Range(ids) = 0..(Cardinality(Range(ids)) - 1)
            /\ \A p, q \in 1..n : crude.mz[p] <= crude.mz[q] => ids[p] <= ids[q]
            /\ \A p, q \in 1..n :
                  (crude.mz[p] < crude.mz[q]
                     /\ ~ \E r \in 1..n : crude.mz[p] < crude.mz[r] /\ crude.mz[r] < crude.mz[q])
                  => ((ids[p] = ids[q]) <=>
                        ((crude.mz[q] - crude.mz[p]) * PPM
                            <= crude.min_difference_ppm * crude.mz[p]))

\* C1 witness: an unsorted input with a gap above and a gap within the
\* threshold has been clustered
C1_Witness ==
    /\ crude.pc = "done"
    /\ Len(crude.mz) >= 3
    /\ crude.mz[1] > crude.mz[2]
    /\ crude.min_difference_ppm = 30
    /\ Cardinality(Range(crude.clust)) = 2
    /\ Cardinality(CrudeMasses) = 3

\* C22: a second run of crude_cluster_mz_list with the same threshold on the
\* signals of one cluster of the first run gives one cluster, and a second
\* run on all signals puts two signals into one cluster iff the first run
\* did.
C22_CrudeIdempotent ==
    /\ crude.pc = "part" =>
          /\ Len(crude.part) = Cardinality({p \in 1..Len(crude.clust) : crude.clust[p] = crude.id})
          /\ \A k \in 1..Len(crude.part) : crude.part[k] = 0
    /\ crude.pc = "again" =>
          /\ Len(crude.again) = Len(crude.clust)
          /\ \A p, q \in 1..Len(crude.clust) :
                (crude.again[p] = crude.again[q]) <=> (crude.clust[p] = crude.clust[q])

\* C22 witness: the second run was made on a cluster of three signals of
\* two masses that were not given in ascending order, taken from an input
\* with two clusters
C22_Witness ==
    /\ crude.pc = "part"
    /\ crude.min_difference_ppm = 30
    /\ crude.mz = <<1000030, 1000070, 1000000, 1000030>>
    /\ crude.clust = <<0, 1, 0, 0>>
    /\ crude.id = 0
    /\ crude.part = <<0, 0, 0>>

(***************************************************************************)
(* refine_clustering                                                       *)
(***************************************************************************)
\* largest number of signals handed to refine_clustering
MaxRefineSignals == 3

\* cap on maxClust, reached only by a call that does not return
MaxRefineIds == 12

RefineMzValues == {10, 11, 13}

RefineIntensities == {1, 2}

\* the default closest_signal_max_deviation_ppm is 15; the masses above are
\* 1 to 3 apart at mass 10, i.e. 95238 to 264706 ppm, so the bound used is
\* scaled with them
RefineClosestPpm == 200000

\* max_mz_deviation_ppm: None (the default) or a bound below the one above
RefineMaxPpm == {None, 100000}

\* cluster ids 0..k-1, every id in use
DenseIds(n) ==
    {c \in [1..n -> 0..(n - 1)] : \A v \in 0..(n - 1) :
        (\E p \in 1..n : c[p] = v) => \A w \in 0..v : \E q \in 1..n : c[q] = w}

\* the positions of the sequence s holding v, ascending: np.argwhere(s == v)
ArgWhere(s, v) == SortedSeq({p \in 1..Len(s) : s[p] = v})

\* (np.max(x) - np.min(x)) / np.average(x) over the set M of positions with
\* masses m, as the quotient <<(max - min) * count, sum>> (times 1E6 = ppm)
Spread(m, M) ==
    LET vals == {m[j] : j \in M}
        total == SumTo([k \in 1..Cardinality(M) |-> m[SortedSeq(M)[k]]], Cardinality(M))
    IN  <<(Max(vals) - Min(vals)) * Cardinality(M), total>>

\* newPPMDev - lastPPMDev > closest_signal_max_deviation_ppm
GrewTooMuchMutant(new, last, bound) == FALSE

GrewTooMuch(new, last, bound) ==
    (new[1] * last[2] - last[1] * new[2]) * PPM > bound * new[2] * last[2]

\* max_mz_deviation_ppm is not None and newPPMDev > max_mz_deviation_ppm
TooWideMutant(new, bound) == FALSE

TooWide(new, bound) == bound # None /\ new[1] * PPM > bound * new[2]

\* lines 533-535: the state on entry to the for loop
RefineEntry(mzs, intensities, clusts, max_mz_deviation_ppm) ==
    [pc |-> "for",
     mzs |-> mzs, intensities |-> intensities, clusts |-> clusts,
     closest_signal_max_deviation_ppm |-> RefineClosestPpm,
     max_mz_deviation_ppm |-> max_mz_deviation_ppm,
     clustInds |-> Unique(clusts),
     maxClust |-> Max(Range(clusts)),
     newClusts |-> clusts,
     i |-> 0, pos |-> <<>>, used |-> <<>>, usedMZs |-> <<>>,
     closest |-> 0, newPPMDev |-> <<0, 1>>, lastPPMDev |-> <<0, 1>>]

RefineInit ==
    /\ \E n \in 1..MaxRefineSignals :
       \E mzs \in [1..n -> RefineMzValues], intensities \in [1..n -> RefineIntensities],
          clusts \in DenseIds(n), max_mz_deviation_ppm \in RefineMaxPpm :
            refine = RefineEntry(mzs, intensities, clusts, max_mz_deviation_ppm)
    /\ crude = Idle
    /\ collapse = Idle
    /\ bracket = Idle
    /\ blank = Idle
    /\ reindex = Idle
    /\ quality = Idle
    /\ consensus = Idle
    /\ normalize = Idle
    /\ topn = Idle
    /\ mzshift = Idle
    /\ chrono = Idle
    /\ findclosest = Idle

\* the masses and intensities of the cluster being refined: mzs[pos]
RefMzs_ == [k \in 1..Len(refine.pos) |-> refine.mzs[refine.pos[k]]]

RefIntensities_ == [k \in 1..Len(refine.pos) |-> refine.intensities[refine.pos[k]]]

\* sum(used == 0)
RefUnused(used) == Count(Len(used), LAMBDA k : used[k] = 0)

\* line 543: maxClust = maxClust + 1
NextMaxClustMutant(maxClust) == maxClust

NextMaxClust(maxClust) == maxClust + 1

\* lines 539-549: one pass of "for i, clust in enumerate(clustInds)" up to
\* the while loop; the loop is left (return newClusts) after the last id
RefineFor ==
    /\ refine.pc = "for"
    /\ IF refine.i >= Len(refine.clustInds)
       THEN refine' = [refine EXCEPT !.pc = "done"]
       ELSE LET clust == refine.clustInds[refine.i + 1]
                n == Count(Len(refine.clusts), LAMBDA p : refine.clusts[p] = refine.i)
                pos == ArgWhere(refine.clusts, clust)
            IN  IF n > 1
                THEN refine' = [refine EXCEPT
                                  !.maxClust = NextMaxClust(refine.maxClust),
                                  !.pos = pos,
                                  !.used = [k \in 1..Len(pos) |-> 0],
                                  !.usedMZs = [k \in 1..Len(pos) |-> 0],
                                  !.pc = "while"]
                ELSE refine' = [refine EXCEPT !.i = refine.i + 1]
    /\ UNCHANGED <<crude, collapse, bracket, blank, reindex, quality, consensus, normalize,
                   topn, mzshift, chrono, findclosest>>

\* line 556: np.argmax(intensities_ * (used == 0))
RefSeed ==
    ArgMax([k \in 1..Len(refine.pos) |->
               RefIntensities_[k] * (IF refine.used[k] = 0 THEN 1 ELSE 0)])

\* lines 555-564: the test of "while sum(used == 0) > 0" and the seed of a
\* new sub-cluster
RefineSeed ==
    /\ refine.pc = "while"
    /\ refine.maxClust < MaxRefineIds
    /\ IF RefUnused(refine.used) > 0
       THEN \E c \in {RefSeed} :
            \E used \in {[refine.used EXCEPT ![c] = 1]} :
                refine' = [refine EXCEPT
                              !.used = used,
                              !.usedMZs = [refine.usedMZs EXCEPT ![c] = RefMzs_[c]],
                              !.newClusts = [refine.newClusts EXCEPT
                                                ![refine.pos[c]] = refine.maxClust + 1],
                              !.lastPPMDev = <<0, 1>>,
                              !.pc = IF RefUnused(used) > 0 THEN "grow" ELSE "while"]
       ELSE refine' = [refine EXCEPT !.i = refine.i + 1, !.pc = "for"]
    /\ UNCHANGED <<crude, collapse, bracket, blank, reindex, quality, consensus, normalize,
                   topn, mzshift, chrono, findclosest>>

\* lines 566-571: the unassigned signal next to the top or the bottom of
\* the growing sub-cluster
RefClosest ==
    LET n == Len(refine.pos)
        members == {k \in 1..n : refine.used[k] = 1}
        top == Max({refine.usedMZs[k] : k \in members})
        low == Min({refine.usedMZs[k] : k \in members})
        tTop == [k \in 1..n |-> Abs(RefMzs_[k] - top) + Abs(refine.used[k]) * PPM]
        tLow == [k \in 1..n |-> Abs(RefMzs_[k] - low) + Abs(refine.used[k]) * PPM]
        closestTop == ArgMin(tTop)
        closestLow == ArgMin(tLow)
    IN  IF tTop[closestTop] < tLow[closestLow] THEN closestTop ELSE closestLow

\* lines 583 and 587: the rejected signal is unassigned again, the signals
\* of the closed sub-cluster are marked -1
RefRejectedMutant(used, closest) == [k \in 1..Len(used) |-> -Abs(used[k])]

RefRejected(used, closest) ==
    [k \in 1..Len(used) |-> IF k = closest THEN 0 ELSE -Abs(used[k])]

\* lines 565-593: one pass of "while cont"
RefineGrow ==
    /\ refine.pc = "grow"
    /\ \E closest \in {RefClosest} :
       \E used \in {[refine.used EXCEPT ![closest] = 1]} :
       \E usedMZs \in {[refine.usedMZs EXCEPT ![closest] = refine.mzs[refine.pos[closest]]]} :
       \E newPPMDev \in {Spread(usedMZs, {k \in 1..Len(used) : used[k] = 1})} :
          IF \/ RefUnused(used) = 0
             \/ GrewTooMuch(newPPMDev, refine.lastPPMDev,
                            refine.closest_signal_max_deviation_ppm)
             \/ TooWide(newPPMDev, refine.max_mz_deviation_ppm)
          THEN refine' = [refine EXCEPT
                            !.closest = closest,
                            !.newPPMDev = newPPMDev,
                            !.newClusts = [refine.newClusts EXCEPT
                                  ![refine.pos[closest]] = refine.clusts[refine.pos[closest]]],
                            !.used = RefRejected(used, closest),
                            !.usedMZs = [k \in 1..Len(used) |-> 0],
                            !.maxClust = refine.maxClust + 1,
                            !.pc = "while"]
          ELSE refine' = [refine EXCEPT
                            !.closest = closest,
                            !.newPPMDev = newPPMDev,
                            !.used = used,
                            !.usedMZs = usedMZs,
                            !.newClusts = [refine.newClusts EXCEPT
                                              ![refine.pos[closest]] = refine.maxClust + 1],
                            !.lastPPMDev = newPPMDev]
    /\ UNCHANGED <<crude, collapse, bracket, blank, reindex, quality, consensus, normalize,
                   topn, mzshift, chrono, findclosest>>

RefineNext == RefineFor \/ RefineSeed \/ RefineGrow

SpecRefine == RefineInit /\ [][RefineNext]_vars

-----------------------------------------------------------------------------
\* the positions of the input cluster id, and of the output cluster id
RefInputCluster(id) == {p \in 1..Len(refine.clusts) : refine.clusts[p] = id}

RefOutputCluster(id) == {p \in 1..Len(refine.newClusts) : refine.newClusts[p] = id}

\* the input clusters with more than one signal
RefSplitIds == {id \in Range(refine.clusts) : Cardinality(RefInputCluster(id)) > 1}

\* the sub-clusters made from the input cluster id
RefSubClusters(id) == {refine.newClusts[p] : p \in RefInputCluster(id)}

RECURSIVE RefSizeSum(_)
RefSizeSum(ids) ==
    IF ids = {} THEN 0
    ELSE LET id == Min(ids)
         IN  Cardinality(RefOutputCluster(id)) + RefSizeSum(ids \ {id})

\* C2: on return every signal has one id >= 0; every signal of an input
\* cluster with more than one signal is in a sub-cluster made by the call,
\* none is left with the input id, and the sizes of the sub-clusters of an
\* input cluster add up to the size of that cluster (no signal is counted
\* in two of them, none is missing).
C2_RefinePartition ==
    refine.pc = "done" =>
        /\ Len(refine.newClusts) = Len(refine.clusts)
        /\ \A p \in 1..Len(refine.newClusts) : refine.newClusts[p] >= 0
        /\ \A id \in RefSplitIds :
              /\ \A p \in RefInputCluster(id) : refine.newClusts[p] \notin Range(refine.clusts)
              /\ RefSizeSum(RefSubClusters(id)) = Cardinality(RefInputCluster(id))
        /\ RefSizeSum(Range(refine.newClusts)) = Len(refine.clusts)

\* C2 witness: a call has returned that split an input cluster of three
\* signals into more than one sub-cluster, next to a single-signal cluster
C2_Witness ==
    /\ refine.pc = "done"
    /\ \E id \in RefSplitIds :
          /\ Cardinality(RefInputCluster(id)) = 3
          /\ Cardinality(RefSubClusters(id)) = 2

\* (max - min) / mean * 1E6 of the masses at the positions M of mzs, as a
\* quotient <<numerator, denominator>> in ppm
RECURSIVE RefMassSum(_)
RefMassSum(M) ==
    IF M = {} THEN 0
    ELSE LET p == Min(M) IN refine.mzs[p] + RefMassSum(M \ {p})

RefSpreadPpm(M) ==
    <<(Max({refine.mzs[p] : p \in M}) - Min({refine.mzs[p] : p \in M})) * Cardinality(M) * PPM,
      RefMassSum(M)>>

\* the positions (in mzs) of the growing sub-cluster, before and after a step
RefGrowing == {refine.pos[k] : k \in {j \in 1..Len(refine.used) : refine.used[j] = 1}}

RefGrowingNext == {refine.pos[k] : k \in {j \in 1..Len(refine'.used) : refine'.used[j] = 1}}

\* C3, one step: a signal added by a growth step is still in the growing
\* sub-cluster after the step only if the spread grew by at most
\* closest_signal_max_deviation_ppm and, when max_mz_deviation_ppm is set,
\* the spread is at most max_mz_deviation_ppm.
C3_KeptStep ==
    (refine.pc = "grow" /\ refine'.pc = "grow" /\ refine'.used[refine'.closest] = 1) =>
        LET old == RefSpreadPpm(RefGrowing)
            new == RefSpreadPpm(RefGrowingNext)
        IN  /\ RefGrowingNext = RefGrowing \cup {refine.pos[refine'.closest]}
            /\ refine.pos[refine'.closest] \notin RefGrowing
            /\ new[1] * old[2] - old[1] * new[2]
                  <= refine.closest_signal_max_deviation_ppm * new[2] * old[2]
            /\ refine.max_mz_deviation_ppm # None
                  => new[1] <= refine.max_mz_deviation_ppm * new[2]

\* C3, on return: every sub-cluster of at least 2 signals has a spread of at
\* most max_mz_deviation_ppm when that bound is set.
C3_Final ==
    (refine.pc = "done" /\ refine.max_mz_deviation_ppm # None) =>
        \A id \in Range(refine.newClusts) :
            Cardinality(RefOutputCluster(id)) >= 2 =>
                LET s == RefSpreadPpm(RefOutputCluster(id))
                IN  s[1] <= refine.max_mz_deviation_ppm * s[2]

MaxCollapseSignals == 3

CollapseMzValues == {10, 11}

CollapseIntensities == {0, 1, 3}

\* masses [100.0, 100.0002] (units of 1e-4) with intensities [1, 3]
CollapseExample ==
    [mz |-> <<1000000, 1000002>>, intensity |-> <<1, 3>>, cluster |-> <<0, 0>>]

\* assignments whose non-negative ids are dense 0..k-1; -1 marks an
\* excluded signal
SurvivorIds(n) ==
    {c \in [1..n -> -1..(n - 1)] : \A v \in 0..(n - 1) :
        (\E p \in 1..n : c[p] = v) => \A w \in 0..v : \E q \in 1..n : c[q] = w}

\* np.unique(cluster, return_counts = True)[1]
UniqueCounts(s) ==
    LET u == Unique(s)
    IN  [k \in 1..Len(u) |-> Cardinality({p \in 1..Len(s) : s[p] = u[k]})]

\* Python's s[j] for a 0-based, possibly negative index j, as a position of 1..n
PyIndex(j, n) == IF j >= 0 THEN j + 1 ELSE n + j + 1

\* line 677: "if j >= 0"
SurvivesMutant(j) == TRUE

Survives(j) == j >= 0

RECURSIVE CollapseLoop(_, _, _, _, _)
\* lines 675-679: the accumulators <<mz_, intensity_>> after signals 1..i
CollapseLoop(mz, intensity, cluster, k, i) ==
    IF i = 0 THEN <<[c \in 1..k |-> 0], [c \in 1..k |-> 0]>>
    ELSE LET acc == CollapseLoop(mz, intensity, cluster, k, i - 1)
             j == cluster[i]
         IN  IF Survives(j)
             THEN <<[acc[1] EXCEPT ![PyIndex(j, k)] = @ + mz[i] * intensity[i]],
                    [acc[2] EXCEPT ![PyIndex(j, k)] = @ + intensity[i]]>>
             ELSE acc

\* a / b of two floats >= 0 as the quotient <<a, b>>; 0 / 0 is nan
Quot(a, b) == <<a, b>>

\* x <= y in the order np.argsort uses: nan comes last
QuotLeq(x, y) ==
    IF IsNaN(y) THEN TRUE
    ELSE IF IsNaN(x) THEN FALSE
    ELSE x[1] * y[2] <= y[1] * x[2]

\* np.argsort(mz_) for an array of quotients
QuotArgSorts(q) ==
    {p \in Perms(Len(q)) : \A a, b \in 1..Len(q) : a < b => QuotLeq(q[p[a]], q[p[b]])}

\* line 685: intensity_ / ns for the cluster at position c
AverageOfMutant(total, ns, c) == <<total, Sum(ns)>>

AverageOf(total, ns, c) == <<total, ns[c]>>

CollapseInitWith(methods) ==
    /\ \/ \E n \in 0..MaxCollapseSignals :
          \E mz \in [1..n -> CollapseMzValues], intensity \in [1..n -> CollapseIntensities],
             cluster \in SurvivorIds(n), method \in methods :
               collapse = [pc |-> "call", mz |-> mz, intensity |-> intensity,
                           cluster |-> cluster, intensity_collapse_method |-> method,
                           mz_ |-> <<>>, intensity_ |-> <<>>]
       \/ \E method \in methods :
               collapse = [pc |-> "call", mz |-> CollapseExample.mz,
                           intensity |-> CollapseExample.intensity,
                           cluster |-> CollapseExample.cluster,
                           intensity_collapse_method |-> method,
                           mz_ |-> <<>>, intensity_ |-> <<>>]
    /\ crude = Idle
    /\ refine = Idle
    /\ bracket = Idle
    /\ blank = Idle
    /\ reindex = Idle
    /\ quality = Idle
    /\ consensus = Idle
    /\ normalize = Idle
    /\ topn = Idle
    /\ mzshift = Idle
    /\ chrono = Idle
    /\ findclosest = Idle

CollapseInit == CollapseInitWith({"sum", "average"})

\* lines 667-692 for the rules 'sum' and 'average': the returned pair of
\* arrays is left in mz_ and intensity_
CollapseMzInfo ==
    /\ collapse.pc = "call"
    /\ collapse.intensity_collapse_method \in {"sum", "average"}
    /\ \E uniq \in {Unique(collapse.cluster)} :
       \E counts \in {UniqueCounts(collapse.cluster)} :
       \E dropFirst \in {\E p \in 1..Len(uniq) : uniq[p] = -1} :
       \E clusts \in {IF dropFirst THEN Tail(uniq) ELSE uniq} :
       \E ns \in {IF dropFirst THEN Tail(counts) ELSE counts} :
       \E k \in {Len(clusts)} :
       \E acc \in {CollapseLoop(collapse.mz, collapse.intensity, collapse.cluster,
                                k, Len(collapse.mz))} :
       \E mz_ \in {[c \in 1..k |-> Quot(acc[1][c], acc[2][c])]} :
       \E intensity_ \in {[c \in 1..k |->
                             IF collapse.intensity_collapse_method = "sum"
                             THEN <<acc[2][c], 1>>
                             ELSE AverageOf(acc[2][c], ns, c)]} :
       \E ord \in QuotArgSorts(mz_) :
          collapse' = [collapse EXCEPT
                          !.mz_ = [c \in 1..k |-> mz_[ord[c]]],
                          !.intensity_ = [c \in 1..k |-> intensity_[ord[c]]],
                          !.pc = "done"]
    /\ UNCHANGED <<crude, refine, bracket, blank, reindex, quality, consensus, normalize,
                   topn, mzshift, chrono, findclosest>>

CollapseNext == CollapseMzInfo

SpecCollapse == CollapseInit /\ [][CollapseNext]_vars

-----------------------------------------------------------------------------
\* the signals of the surviving cluster id
ColCluster(id) == {p \in 1..Len(collapse.cluster) : collapse.cluster[p] = id}

\* the surviving clusters: the non-negative ids
ColSurvivors == {id \in Range(collapse.cluster) : id >= 0}

RECURSIVE ColTotal(_, _)
\* the sum of f over the positions M
ColTotal(f, M) ==
    IF M = {} THEN 0
    ELSE LET p == CHOOSE q \in M : TRUE IN f[p] + ColTotal(f, M \ {p})

ColWeighted == [p \in 1..Len(collapse.mz) |-> collapse.mz[p] * collapse.intensity[p]]

\* the pair (m/z, intensity) at output position c is the pair of cluster id
ColIsPairOf(c, id) ==
    LET total == ColTotal(collapse.intensity, ColCluster(id))
        weighted == ColTotal(ColWeighted, ColCluster(id))
        count == Cardinality(ColCluster(id))
        m == collapse.mz_[c]
        t == collapse.intensity_[c]
    IN  /\ IF total = 0 THEN IsNaN(m)
           ELSE ~IsNaN(m) /\ m[1] * total = weighted * m[2]
        /\ IF collapse.intensity_collapse_method = "sum"
           THEN t[1] = total * t[2]
           ELSE t[1] * count = total * t[2]

\* C4: with rule 'sum' or 'average' and dense surviving ids 0..k-1 the
\* output holds exactly k pairs, one per surviving cluster, ascending in
\* m/z; the m/z of a pair is sum(mz*intensity)/sum(intensity) of its
\* cluster (the quotient 0/0 of a cluster without intensity is nan and is
\* ordered last, as numpy does), its intensity the cluster's total ('sum')
\* or total / signal count ('average'); signals with id -1 are in no pair.
\* The masses [100.0, 100.0002] with intensities [1, 3] give 100.00015.
C4_CollapseWeightedMean ==
    collapse.pc = "done" =>
        LET k == Cardinality(ColSurvivors)
        IN  /\ Len(collapse.mz_) = k
            /\ Len(collapse.intensity_) = k
            /\ \E f \in [1..k -> ColSurvivors] :
                  /\ \A a, b \in 1..k : f[a] = f[b] => a = b
                  /\ \A c \in 1..k : ColIsPairOf(c, f[c])
            /\ \A a, b \in 1..k :
                  (a < b /\ ~IsNaN(collapse.mz_[b])) =>
                     /\ ~IsNaN(collapse.mz_[a])
                     /\ collapse.mz_[a][1] * collapse.mz_[b][2]
                           <= collapse.mz_[b][1] * collapse.mz_[a][2]
            /\ (collapse.mz = CollapseExample.mz /\ collapse.intensity = CollapseExample.intensity
                  /\ collapse.cluster = CollapseExample.cluster)
               => (k = 1 /\ collapse.mz_[1][1] * 10 = 10000015 * collapse.mz_[1][2])

\* C4 witness: rule 'average' has collapsed two surviving clusters; the
\* cluster with the larger id comes first in the output because its m/z is
\* the smaller one, and it holds two signals of different mass and intensity
C4_Witness ==
    /\ collapse.pc = "done"
    /\ collapse.intensity_collapse_method = "average"
    /\ Len(collapse.mz_) = 2
    /\ ~IsNaN(collapse.mz_[2])
    /\ ColIsPairOf(1, 1)
    /\ collapse.mz_[1][1] * collapse.mz_[2][2] < collapse.mz_[2][1] * collapse.mz_[1][2]
    /\ \E p, q \in ColCluster(1) :
          /\ collapse.mz[p] < collapse.mz[q]
          /\ 0 < collapse.intensity[p]
          /\ collapse.intensity[p] < collapse.intensity[q]

(***************************************************************************)
(* bracket_samples and build_data_matrix                                   *)
(***************************************************************************)
\* largest number of consensus signals pooled over all samples
MaxPool == 3

\* number of samples of the assay
MaxSamples == 2

\* cap on the number of brackets, reached only by a pass that does not end
MaxBrackets == MaxPool + 2

\* masses 4 and 5, and 5 and 6, are within 250000 ppm of each other; 4 and
\* 6 are not
BracketMzValues == {4, 5, 6}

BracketPpm == 250000

\* intensities in tenths: 0.1, 1.0 and 10.0
BracketIntensities == {1, 10, 100}

\* a tight group of 5 signals (100.0000 to 100.0020, units of 1e-4) and one
\* outlier 200 ppm away, bracketed with max_ppm_deviation = 25
BracketExample ==
    [sample |-> <<1, 1, 1, 2, 2, 2>>,
     mz |-> <<1000000, 1000005, 1000010, 1000015, 1000020, 1000200>>,
     spint |-> <<100, 100, 1000, 100, 100, 100>>,
     max_ppm_deviation |-> 25]

\* np.log10 of an intensity given in tenths; the intensities of the model
\* are powers of ten, so the logarithm is exact
Log10(x) == CASE x = 1 -> -1 [] x = 10 -> 0 [] x = 100 -> 1 [] x = 1000 -> 2

\* lines 994-1015: the pooled arrays on entry to the while loop
BracketEntry(sample, mz, spint, max_ppm_deviation) ==
    [pc |-> "while",
     sample |-> sample, mz |-> mz, spint |-> spint,
     max_ppm_deviation |-> max_ppm_deviation,
     intensity |-> [p \in 1..Len(spint) |-> Log10(spint[p])],
     cluster |-> [p \in 1..Len(mz) |-> 0],
     cclust |-> 1,
     c |-> 0, assign |-> {},
     tempClusterInfo |-> <<>>,
     dataMatrix |-> <<>>]

\* the pools of consensus spectra: the signals of sample 1 come first
NonDecreasing(n, k) == {f \in [1..n -> 1..k] : \A a, b \in 1..n : a <= b => f[a] <= f[b]}

BracketInit ==
    /\ \/ \E n \in 1..MaxPool :
          \E sample \in NonDecreasing(n, MaxSamples), mz \in [1..n -> BracketMzValues],
             spint \in [1..n -> BracketIntensities] :
                bracket = BracketEntry(sample, mz, spint, BracketPpm)
       \/ bracket = BracketEntry(BracketExample.sample, BracketExample.mz,
                                 BracketExample.spint, BracketExample.max_ppm_deviation)
    /\ crude = Idle
    /\ refine = Idle
    /\ collapse = Idle
    /\ blank = Idle
    /\ reindex = Idle
    /\ quality = Idle
    /\ consensus = Idle
    /\ normalize = Idle
    /\ topn = Idle
    /\ mzshift = Idle
    /\ chrono = Idle
    /\ findclosest = Idle

\* np.sum(temp["cluster"] == 0)
BrUnassigned == Cardinality({p \in 1..Len(bracket.cluster) : bracket.cluster[p] = 0})

\* line 1018: np.argmax(temp["intensity"] * (temp["cluster"] == 0))
BrSeed ==
    ArgMax([p \in 1..Len(bracket.cluster) |->
               bracket.intensity[p] * (IF bracket.cluster[p] = 0 THEN 1 ELSE 0)])

\* line 1021: np.abs(mz - cmz) / mz * 1E6 <= max_ppm_deviation
BrAssign(cmz) ==
    {p \in 1..Len(bracket.mz) :
        Abs(bracket.mz[p] - cmz) * PPM <= bracket.max_ppm_deviation * bracket.mz[p]}

\* line 1027: np.min(mzs)
BrMinMZMutant(mzs) == Max(mzs)

BrMinMZ(mzs) == Min(mzs)

\* lines 1017-1034: one pass of the while loop
BracketIter ==
    /\ bracket.pc = "while"
    /\ BrUnassigned > 0
    /\ Len(bracket.tempClusterInfo) < MaxBrackets
    /\ \E c \in {BrSeed} :
       \E assign \in {BrAssign(bracket.mz[c])} :
       \E mzs \in {{bracket.mz[p] : p \in assign}} :
          bracket' = [bracket EXCEPT
                         !.c = c,
                         !.assign = assign,
                         !.cluster = [p \in 1..Len(bracket.cluster) |->
                                         IF p \in assign THEN bracket.cclust
                                         ELSE bracket.cluster[p]],
                         !.tempClusterInfo = Append(bracket.tempClusterInfo,
                             [cluster |-> bracket.cclust,
                              meanMZ |-> <<SumTo([k \in 1..Cardinality(assign) |->
                                                    bracket.mz[SortedSeq(assign)[k]]],
                                                 Cardinality(assign)),
                                           Cardinality(assign)>>,
                              minMZ |-> BrMinMZ(mzs),
                              maxMZ |-> Max(mzs),
                              assignedSamples |-> Cardinality(assign),
                              uniqueSamples |-> Cardinality({bracket.sample[p] : p \in assign})]),
                         !.cclust = bracket.cclust + 1]
    /\ UNCHANGED <<crude, refine, collapse, blank, reindex, quality, consensus, normalize,
                   topn, mzshift, chrono, findclosest>>

\* lines 1017 and 1095: the loop ends, the brackets are returned
BracketReturn ==
    /\ bracket.pc = "while"
    /\ BrUnassigned = 0
    /\ bracket' = [bracket EXCEPT !.pc = "bracketed"]
    /\ UNCHANGED <<crude, refine, collapse, blank, reindex, quality, consensus, normalize,
                   topn, mzshift, chrono, findclosest>>

\* line 1153: np.logical_and(spectrum.mz >= mzmin, spectrum.mz <= mzmax)
InWindowMutant(m, mzmin, mzmax) == m > mzmin /\ m <= mzmax

InWindow(m, mzmin, mzmax) == m >= mzmin /\ m <= mzmax

\* lines 1151-1158: the cell of the sample in row samplei for bracket braci
DataCell(samplei, braci) ==
    LET spectrum == SortedSeq({p \in 1..Len(bracket.mz) : bracket.sample[p] = samplei})
        b == bracket.tempClusterInfo[braci]
        use == [k \in 1..Len(spectrum) |->
                   IF InWindow(bracket.mz[spectrum[k]], b.minMZ, b.maxMZ) THEN 1 ELSE 0]
    IN  IF Sum(use) > 0
        THEN <<Sum([k \in 1..Len(spectrum) |-> use[k] * bracket.spint[spectrum[k]]]), 1>>
        ELSE NaN

\* lines 1145-1160: build_data_matrix on the brackets returned
BuildDataMatrix ==
    /\ bracket.pc = "bracketed"
    /\ bracket' = [bracket EXCEPT
                      !.dataMatrix = [samplei \in 1..MaxSamples |->
                                         [braci \in 1..Len(bracket.tempClusterInfo) |->
                                             DataCell(samplei, braci)]],
                      !.pc = "done"]
    /\ UNCHANGED <<crude, refine, collapse, blank, reindex, quality, consensus, normalize,
                   topn, mzshift, chrono, findclosest>>

BracketNext == BracketIter \/ BracketReturn \/ BuildDataMatrix

SpecBracket == BracketInit /\ [][BracketNext]_vars

-----------------------------------------------------------------------------
\* a step of bracket_samples that creates a bracket
BrCreates ==
    /\ bracket.pc = "while"
    /\ Len(bracket'.tempClusterInfo) = Len(bracket.tempClusterInfo) + 1

\* the signals not yet in a bracket before the step
BrFree == {p \in 1..Len(bracket.cluster) : bracket.cluster[p] = 0}

\* the signals in bracket id after the step, and in the current state
BrMembersNext(id) == {p \in 1..Len(bracket.cluster) : bracket'.cluster[p] = id}

BrMembers(id) == {p \in 1..Len(bracket.cluster) : bracket.cluster[p] = id}

\* C5: the seed of every new bracket is a still unassigned signal whose
\* intensity is the largest among the unassigned signals, the lowest pool
\* index winning ties; for every pool of positive intensities, also
\* intensities of 1 or below.
C5_SeedStep ==
    BrCreates =>
        LET c == bracket'.c
        IN  /\ c \in BrFree
            /\ \A q \in BrFree :
                  /\ bracket.spint[q] <= bracket.spint[c]
                  /\ bracket.spint[q] = bracket.spint[c] => c <= q

C5_SeedIsLargestUnassigned == [][C5_SeedStep]_vars

\* every intensity of the pool is above 1.0 (10 tenths): on such a pool the
\* logarithm of every intensity is positive
BrAllAboveOne == \A p \in 1..Len(bracket.spint) : bracket.spint[p] > 10

\* C6: the signals assigned to a new bracket are exactly the signals that
\* were unassigned and lie within max_ppm_deviation ppm of the seed's mass;
\* none that an earlier bracket owns is included.  The pool of a tight group
\* of 5 and an outlier 200 ppm away gives, with max_ppm_deviation = 25,
\* exactly 2 brackets, the tight one with assigned count 5.
\* (Stated for the pools whose intensities are all above 1, where the seed
\* is the largest unassigned signal.)
C6_AssignStep ==
    (BrCreates /\ BrAllAboveOne) =>
        LET cmz == bracket.mz[bracket'.c]
        IN  BrMembersNext(bracket.cclust) =
               {p \in BrFree :
                   Abs(bracket.mz[p] - cmz) * PPM <= bracket.max_ppm_deviation * bracket.mz[p]}

C6_Example ==
    (bracket.pc \in {"bracketed", "done"} /\ bracket.mz = BracketExample.mz
        /\ bracket.spint = BracketExample.spint
        /\ bracket.max_ppm_deviation = BracketExample.max_ppm_deviation) =>
        /\ Len(bracket.tempClusterInfo) = 2
        /\ \E j \in 1..2 :
              /\ bracket.tempClusterInfo[j].assignedSamples = 5
              /\ bracket.tempClusterInfo[j].maxMZ < 1000200

C6_AssignsUnassignedInWindow == [][C6_AssignStep]_vars /\ []C6_Example

\* C7: a signal that is in a bracket keeps its bracket id for the rest of
\* the pass; on return every signal is in exactly one bracket, the
\* assigned count recorded for a bracket is the number of signals whose
\* final bracket it is, and the recorded counts add up to the pool size.
\* (Stated for the pools whose intensities are all above 1, where the seed
\* is the largest unassigned signal.)
C7_KeepStep ==
    (bracket.pc = "while" /\ BrAllAboveOne) =>
        \A p \in 1..Len(bracket.cluster) :
            bracket.cluster[p] # 0 => bracket'.cluster[p] = bracket.cluster[p]

C7_Final ==
    (bracket.pc \in {"bracketed", "done"} /\ BrAllAboveOne) =>
        /\ \A p \in 1..Len(bracket.cluster) :
              \E j \in 1..Len(bracket.tempClusterInfo) :
                  bracket.tempClusterInfo[j].cluster = bracket.cluster[p]
        /\ \A j \in 1..Len(bracket.tempClusterInfo) :
              bracket.tempClusterInfo[j].assignedSamples =
                 Cardinality(BrMembers(bracket.tempClusterInfo[j].cluster))
        /\ Sum([j \in 1..Len(bracket.tempClusterInfo) |->
                   bracket.tempClusterInfo[j].assignedSamples]) = Len(bracket.cluster)

C7_BracketsPartition == [][C7_KeepStep]_vars /\ []C7_Final

\* C8: every iteration assigns at least one signal that was unassigned, so
\* the pass ends with no signal unassigned after at most as many brackets
\* as there are pooled signals; for every pool of positive intensities,
\* also intensities of 1 or below.
C8_ProgressStep == BrCreates => \E p \in BrFree : bracket'.cluster[p] # 0

C8_AtMostPoolSize == Len(bracket.tempClusterInfo) <= Len(bracket.cluster)

C8_BracketingTerminates == [][C8_ProgressStep]_vars /\ []C8_AtMostPoolSize

\* the signals of the sample in row s whose mass is in the window of
\* the bracket in column b
MatrixMatches(s, b) ==
    {p \in 1..Len(bracket.mz) :
        /\ bracket.sample[p] = s
        /\ bracket.tempClusterInfo[b].minMZ <= bracket.mz[p]
        /\ bracket.mz[p] <= bracket.tempClusterInfo[b].maxMZ}

RECURSIVE MatrixTotal(_)
MatrixTotal(M) ==
    IF M = {} THEN 0
    ELSE LET p == CHOOSE q \in M : TRUE IN bracket.spint[p] + MatrixTotal(M \ {p})

\* C9: the matrix has one row per sample and one column per bracket; a cell
\* is the sum of the intensities of the sample's signals with
\* minMZ <= mass <= maxMZ of the bracket, and it is nan iff no signal of the
\* sample has its mass in that window.
C9_DataMatrixCells ==
    bracket.pc = "done" =>
        /\ Len(bracket.dataMatrix) = MaxSamples
        /\ \A s \in 1..MaxSamples :
              /\ Len(bracket.dataMatrix[s]) = Len(bracket.tempClusterInfo)
              /\ \A b \in 1..Len(bracket.tempClusterInfo) :
                    LET cell == bracket.dataMatrix[s][b]
                    IN  /\ IsNaN(cell) <=> MatrixMatches(s, b) = {}
                        /\ ~IsNaN(cell) =>
                              cell[1] = MatrixTotal(MatrixMatches(s, b)) * cell[2]

\* C9 witness: a matrix has been built in which one cell is nan and another
\* sums two signals of one sample, one of them at the lower end of the
\* bracket's window and one at the upper end
C9_Witness ==
    /\ bracket.pc = "done"
    /\ \E s \in 1..MaxSamples, b \in 1..Len(bracket.tempClusterInfo) :
          IsNaN(bracket.dataMatrix[s][b])
    /\ \E s \in 1..MaxSamples, b \in 1..Len(bracket.tempClusterInfo) :
          /\ ~IsNaN(bracket.dataMatrix[s][b])
          /\ \E p, q \in MatrixMatches(s, b) :
                /\ bracket.mz[p] = bracket.tempClusterInfo[b].minMZ
                /\ bracket.mz[q] = bracket.tempClusterInfo[b].maxMZ
                /\ bracket.mz[p] < bracket.mz[q]

\* C21: the minMZ and maxMZ recorded for a new bracket are the smallest and
\* the largest mass of the signals assigned to it by the iteration that
\* creates it, the seed's mass and meanMZ lie between them, and the
\* iteration leaves the records of all earlier brackets as they were.
C21_WindowStep ==
    BrCreates =>
        LET new == bracket'.tempClusterInfo[Len(bracket'.tempClusterInfo)]
            assigned == BrMembersNext(bracket.cclust)
        IN  /\ assigned # {}
            /\ \E p \in assigned : bracket.mz[p] = new.minMZ
            /\ \E p \in assigned : bracket.mz[p] = new.maxMZ
            /\ \A p \in assigned : new.minMZ <= bracket.mz[p] /\ bracket.mz[p] <= new.maxMZ
            /\ new.minMZ <= bracket.mz[bracket'.c]
            /\ bracket.mz[bracket'.c] <= new.maxMZ
            /\ new.meanMZ[2] > 0
            /\ new.minMZ * new.meanMZ[2] <= new.meanMZ[1]
            /\ new.meanMZ[1] <= new.maxMZ * new.meanMZ[2]
            /\ \A j \in 1..Len(bracket.tempClusterInfo) :
                  bracket'.tempClusterInfo[j] = bracket.tempClusterInfo[j]

MaxFeatures == 1

\* the defaults of the signature (line 1164); the p-value cutoff 0.05 is in
\* units of 1e-4
foldCutoff == 2

pvalueCutoff == 500

minDetected == 2

\* the cells of the data matrix: nan (not detected), 10 or 100
BlankCells == {NaN, <<10, 1>>, <<100, 1>>}

\* the cells of row i: any, but in the matrix of five samples the blank is
\* 10 or not detected
BlankRowCells(groups, i) ==
    IF Len(groups) > 4 /\ groups[i] = "blank" THEN BlankCells \ {<<100, 1>>} ELSE BlankCells

\* the group of each sample (row), and the groups to test
BlankGroupings ==
    {<<"blank", "blank", "A", "A">>,
     <<"blank", "A", "A", "B", "B">>,
     <<"A", "A", "B">>}

BlankTestGroups == {<<"A">>, <<"A", "B">>}

\* scipy.stats.ttest_ind is not part of this repository: the p-value it
\* returns is any of 0.0005, 0.05, 0.06 (units of 1e-4) or nan
PValues == {<<5, 10000>>, <<500, 10000>>, <<600, 10000>>, NaN}

\* the rows i of the matrix with groups[i] = group
GroupInds(groups, group) == SortedSeq({i \in 1..Len(groups) : groups[i] = group})

\* dat[inds, featurei]
Column(dat, inds, featurei) == [k \in 1..Len(inds) |-> dat[inds[k]][featurei]]

\* np.sum(~np.isnan(vals))
Detected(vals) == Cardinality({k \in 1..Len(vals) : ~IsNaN(vals[k])})

\* vals[~np.isnan(vals)]
NotNaN(vals) == SelectSeq(vals, LAMBDA v : ~IsNaN(v))

\* np.mean(vals) of numbers that are not nan, as a quotient
Mean(vals) == <<Sum([k \in 1..Len(vals) |-> vals[k][1]]), Len(vals)>>

\* line 1222: fold = np.mean(valsGroup) / np.mean(valsBlanks)
Fold(valsGroup, valsBlanks) ==
    <<Mean(valsGroup)[1] * Mean(valsBlanks)[2], Mean(valsBlanks)[1] * Mean(valsGroup)[2]>>

\* line 1223: pval <= pvalueCutoff (false for nan)
PAtMostMutant(pval, cutoff) == ~IsNaN(pval) /\ pval[1] * 10000 < cutoff * pval[2]

PAtMost(pval, cutoff) == ~IsNaN(pval) /\ pval[1] * 10000 <= cutoff * pval[2]

\* line 1223: fold >= foldCutoff (false for nan, true for inf)
FoldAtLeastMutant(fold, cutoff) == ~IsNaN(fold) /\ fold[1] > cutoff * fold[2]

FoldAtLeast(fold, cutoff) == ~IsNaN(fold) /\ fold[1] >= cutoff * fold[2]

\* line 1216: keeps[featurei] -= 1
OnlyInGroupMutant(k) == k + 1

OnlyInGroup(k) == k - 1

\* lines 1185 and 1201: fewer than minDetected values that are not nan
TooFewMutant(vals) == Detected(vals) <= minDetected

TooFew(vals) == Detected(vals) < minDetected

BlankInit ==
    /\ \E nf \in 1..MaxFeatures :
       \E groups \in BlankGroupings, toTestGroups \in BlankTestGroups :
       \E dat \in {d \in [1..Len(groups) -> [1..nf -> BlankCells]] :
                       \A i \in 1..Len(groups), f \in 1..nf : d[i][f] \in BlankRowCells(groups, i)} :
          blank = [pc |-> "feature",
                   dat |-> dat, groups |-> groups, blankGroup |-> "blank",
                   toTestGroups |-> toTestGroups,
                   keeps |-> [f \in 1..nf |-> 0],
                   featurei |-> 0, notInBlanks |-> FALSE, valsBlanks |-> <<>>,
                   g |-> 0,
                   pvals |-> <<>>, folds |-> <<>>, sigInds |-> <<>>, comparisons |-> <<>>,
                   result |-> <<>>]
    /\ crude = Idle
    /\ refine = Idle
    /\ collapse = Idle
    /\ bracket = Idle
    /\ reindex = Idle
    /\ quality = Idle
    /\ consensus = Idle
    /\ normalize = Idle
    /\ topn = Idle
    /\ mzshift = Idle
    /\ chrono = Idle
    /\ findclosest = Idle

\* lines 1175-1191: the next feature, up to the loop over the groups
BlankFeature ==
    /\ blank.pc = "feature"
    /\ blank.featurei < Len(blank.keeps)
    /\ \E valsBlanks \in {Column(blank.dat, GroupInds(blank.groups, blank.blankGroup),
                                 blank.featurei + 1)} :
          IF TooFew(Column(blank.dat, [i \in 1..Len(blank.groups) |-> i], blank.featurei + 1))
          THEN blank' = [blank EXCEPT !.featurei = blank.featurei + 1,
                                      !.notInBlanks = FALSE,
                                      !.valsBlanks = valsBlanks]
          ELSE blank' = [blank EXCEPT !.notInBlanks = (Detected(valsBlanks) = 0),
                                      !.valsBlanks = NotNaN(valsBlanks),
                                      !.g = 0,
                                      !.pc = "group"]
    /\ UNCHANGED <<crude, refine, collapse, bracket, reindex, quality, consensus, normalize,
                   topn, mzshift, chrono, findclosest>>

\* lines 1197-1232: one pass of "for toTestGroup in toTestGroups", or the
\* end of that loop.  -inf and inf are <<-1, 0>> and <<1, 0>>; pvals and
\* folds hold pval and fold where the code appends -log10(pval) and
\* log2(fold) for the plot, and comparisons holds the feature and the group
\* of the formatted text.
BlankGroup ==
    /\ blank.pc = "group"
    /\ IF blank.g >= Len(blank.toTestGroups)
       THEN blank' = [blank EXCEPT !.featurei = blank.featurei + 1, !.pc = "feature"]
       ELSE \E toTestGroup \in {blank.toTestGroups[blank.g + 1]} :
            \E f \in {blank.featurei + 1} :
            \E valsGroup \in {Column(blank.dat, GroupInds(blank.groups, toTestGroup), f)} :
               IF TooFew(valsGroup)
               THEN blank' = [blank EXCEPT !.g = blank.g + 1]
               ELSE IF blank.notInBlanks
               THEN IF blank.keeps[f] <= 0
                    THEN blank' = [blank EXCEPT
                                      !.pvals = Append(@, <<-1, 0>>),
                                      !.folds = Append(@, <<1, 0>>),
                                      !.sigInds = Append(@, "only in group"),
                                      !.comparisons = Append(@, <<f, toTestGroup>>),
                                      !.keeps = [@ EXCEPT ![f] = OnlyInGroup(@)],
                                      !.g = blank.g + 1]
                    ELSE blank' = [blank EXCEPT !.pc = "AssertionError"]
               ELSE \E pval \in PValues :
                    \E fold \in {Fold(NotNaN(valsGroup), blank.valsBlanks)} :
                    \E sigInd \in {PAtMost(pval, pvalueCutoff) /\ FoldAtLeast(fold, foldCutoff)} :
                       IF blank.keeps[f] >= 0
                       THEN blank' = [blank EXCEPT
                                         !.pvals = Append(@, pval),
                                         !.folds = Append(@, fold),
                                         !.sigInds = Append(@, IF sigInd THEN "group >> blank"
                                                                ELSE "-"),
                                         !.comparisons = Append(@, <<f, toTestGroup>>),
                                         !.keeps = [@ EXCEPT ![f] = IF sigInd THEN @ + 1 ELSE @],
                                         !.g = blank.g + 1]
                       ELSE blank' = [blank EXCEPT !.pc = "AssertionError"]
    /\ UNCHANGED <<crude, refine, collapse, bracket, reindex, quality, consensus, normalize,
                   topn, mzshift, chrono, findclosest>>

\* line 1270: return [k != 0 for k in keeps]
BlankReturn ==
    /\ blank.pc = "feature"
    /\ blank.featurei >= Len(blank.keeps)
    /\ blank' = [blank EXCEPT !.result = [f \in 1..Len(blank.keeps) |-> blank.keeps[f] # 0],
                              !.pc = "done"]
    /\ UNCHANGED <<crude, refine, collapse, bracket, reindex, quality, consensus, normalize,
                   topn, mzshift, chrono, findclosest>>

BlankNext == BlankFeature \/ BlankGroup \/ BlankReturn

SpecBlank == BlankInit /\ [][BlankNext]_vars

-----------------------------------------------------------------------------
\* the values of feature f that are not nan, in the samples of a group
BlkValues(f, group) ==
    {i \in 1..Len(blank.groups) : blank.groups[i] = group /\ ~IsNaN(blank.dat[i][f])}

BlkAllValues(f) == {i \in 1..Len(blank.groups) : ~IsNaN(blank.dat[i][f])}

RECURSIVE BlkTotal(_, _)
BlkTotal(f, M) ==
    IF M = {} THEN 0
    ELSE LET i == CHOOSE j \in M : TRUE IN blank.dat[i][f][1] + BlkTotal(f, M \ {i})

\* mean(group) / mean(blanks) >= cutoff for feature f, both sets non-empty
\* and the values positive
BlkFoldAtLeast(f, group, cutoff) ==
    BlkTotal(f, BlkValues(f, group)) * Cardinality(BlkValues(f, blank.blankGroup))
       >= cutoff * BlkTotal(f, BlkValues(f, blank.blankGroup))
             * Cardinality(BlkValues(f, group))

\* the p-value of the Welch test of the group against the blanks for f
BlkTested(f, group, pval) ==
    \E t \in 1..Len(blank.comparisons) :
        blank.comparisons[t] = <<f, group>> /\ blank.pvals[t] = pval

\* the tested group lets feature f pass
BlkPasses(f, group) ==
    /\ Cardinality(BlkValues(f, group)) >= minDetected
    /\ \/ BlkValues(f, blank.blankGroup) = {}
       \/ \E pval \in PValues :
             /\ BlkTested(f, group, pval)
             /\ ~IsNaN(pval)
             /\ pval[1] * 10000 <= pvalueCutoff * pval[2]
             /\ BlkFoldAtLeast(f, group, foldCutoff)

\* C10: the mask has one entry per column; the entry of f is True iff f has
\* at least minDetected values over all samples and some tested group with
\* at least minDetected values of f either meets no blank value of f or
\* has p <= pvalueCutoff and mean(group)/mean(blanks) >= foldCutoff.  So
\* fold 10 with p < 0.001 is kept, a feature equal in blanks and groups is
\* dropped, a feature absent from the blanks but detected in >= minDetected
\* samples of a tested group is kept.
C10_BlankMask ==
    blank.pc = "done" =>
        /\ Len(blank.result) = Len(blank.dat[1])
        /\ \A f \in 1..Len(blank.result) :
              /\ blank.result[f] <=>
                    /\ Cardinality(BlkAllValues(f)) >= minDetected
                    /\ \E t \in 1..Len(blank.toTestGroups) : BlkPasses(f, blank.toTestGroups[t])
              /\ (\E t \in 1..Len(blank.toTestGroups) :
                     /\ BlkTested(f, blank.toTestGroups[t], <<5, 10000>>)
                     /\ BlkFoldAtLeast(f, blank.toTestGroups[t], 10))
                 => blank.result[f]
              /\ (/\ BlkValues(f, blank.blankGroup) # {}
                  /\ \A i, j \in BlkAllValues(f) : blank.dat[i][f] = blank.dat[j][f])
                 => ~blank.result[f]
              /\ (/\ BlkValues(f, blank.blankGroup) = {}
                  /\ \E t \in 1..Len(blank.toTestGroups) :
                        Cardinality(BlkValues(f, blank.toTestGroups[t])) >= minDetected)
                 => blank.result[f]

\* C10 witness: a mask has been returned for a feature that two groups were
\* tested for against detected blanks, one of them passing with p exactly
\* at the cutoff, the other failing
C10_Witness ==
    /\ blank.pc = "done"
    /\ blank.result[1]
    /\ BlkValues(1, blank.blankGroup) # {}
    /\ BlkTested(1, "B", <<500, 10000>>)
    /\ BlkPasses(1, "B")
    /\ \E pval \in PValues : BlkTested(1, "A", pval)
    /\ ~BlkPasses(1, "A")

-----------------------------------------------------------------------------
\* the counter of feature f moves away from 0 only, and never across it
C11_CounterStep ==
    \A f \in 1..Len(blank.keeps) :
        \/ blank'.keeps[f] = blank.keeps[f]
        \/ blank.keeps[f] <= 0 /\ blank'.keeps[f] = blank.keeps[f] - 1
        \/ blank.keeps[f] >= 0 /\ blank'.keeps[f] = blank.keeps[f] + 1

\* neither "assert keeps[featurei] <= 0" nor "assert keeps[featurei] >= 0"
\* has failed
C11_NoAssertionError == blank.pc # "AssertionError"

\* C11: while the tested groups of a feature are processed its keep-counter
\* never changes sign: it is only decremented from a value <= 0 or only
\* incremented from a value >= 0, so neither assertion on it can fail.
C11_CounterKeepsSign == [][C11_CounterStep]_vars /\ []C11_NoAssertionError

\* C11 witness: the counter of a feature has been changed for two tested
\* groups, the second time from a value that was not 0
C11_Witness ==
    /\ blank.pc = "done"
    /\ Abs(blank.keeps[1]) = 2

(***************************************************************************)
(* reindex_cluster                                                         *)
(***************************************************************************)
\* largest number of ids handed to reindex_cluster
MaxReindexIds == 4

ReindexIdValues == {-1, 0, 1, 2, 4, 5}

\* the example of the docstring (lines 607-610)
ReindexExample == <<0, 0, 0, 1, 2, 4, 4, 4, 5, 6>>

\* line 628: use += 1
NextUseMutant(use, clustInd) == clustInd + 1

NextUse(use, clustInd) == use + 1

RECURSIVE ReindexLoop(_, _, _)
\* lines 625-629: <<newClust, use>> after the first i ids of clustInds
ReindexLoop(cluster, clustInds, i) ==
    IF i = 0 THEN <<[p \in 1..Len(cluster) |-> 0], 0>>
    ELSE LET acc == ReindexLoop(cluster, clustInds, i - 1)
         IN  <<[p \in 1..Len(cluster) |->
                   IF cluster[p] = clustInds[i] THEN acc[2] ELSE acc[1][p]],
               NextUse(acc[2], clustInds[i])>>

reindex_cluster(cluster) == ReindexLoop(cluster, Unique(cluster), Len(Unique(cluster)))[1]

ReindexInit ==
    /\ \E cluster \in SeqsOf(ReindexIdValues, 0, MaxReindexIds) \cup {ReindexExample} :
          reindex = [pc |-> "call", cluster |-> cluster, newClust |-> <<>>, again |-> <<>>]
    /\ crude = Idle
    /\ refine = Idle
    /\ collapse = Idle
    /\ bracket = Idle
    /\ blank = Idle
    /\ quality = Idle
    /\ consensus = Idle
    /\ normalize = Idle
    /\ topn = Idle
    /\ mzshift = Idle
    /\ chrono = Idle
    /\ findclosest = Idle

\* lines 602-631: one call
ReindexCluster ==
    /\ reindex.pc = "call"
    /\ reindex' = [reindex EXCEPT !.newClust = reindex_cluster(reindex.cluster),
                                  !.pc = "done"]
    /\ UNCHANGED <<crude, refine, collapse, bracket, blank, quality, consensus, normalize,
                   topn, mzshift, chrono, findclosest>>

\* a second call, on the result of the first
ReindexAgain ==
    /\ reindex.pc = "done"
    /\ reindex' = [reindex EXCEPT !.again = reindex_cluster(reindex.newClust),
                                  !.pc = "again"]
    /\ UNCHANGED <<crude, refine, collapse, bracket, blank, quality, consensus, normalize,
                   topn, mzshift, chrono, findclosest>>

ReindexNext == ReindexCluster \/ ReindexAgain

SpecReindex == ReindexInit /\ [][ReindexNext]_vars

-----------------------------------------------------------------------------
\* C12: the output of reindex_cluster has the length of the input, equal
\* output ids iff equal input ids, output ids exactly 0..k-1 for k distinct
\* input ids, and the order of the ids kept (-1 is an id like any other and
\* becomes 0); [0,0,0,1,2,4,4,4,5,6] gives [0,0,0,1,2,3,3,3,4,5]; a second
\* application changes nothing.
C12_ReindexDenseOrdered ==
    /\ reindex.pc \in {"done", "again"} =>
          LET old == reindex.cluster
              new == reindex.newClust
          IN  /\ Len(new) = Len(old)
              /\ \A p, q \in 1..Len(old) :
                    /\ (new[p] = new[q]) <=> (old[p] = old[q])
                    /\ (old[p] < old[q]) => (new[p] < new[q])
              /\ Range(new) = 0..(Cardinality(Range(old)) - 1)
              /\ (\E p \in 1..Len(old) : old[p] = -1)
                    => \A p \in 1..Len(old) : (old[p] = -1) <=> (new[p] = 0)
              /\ old = ReindexExample => new = <<0, 0, 0, 1, 2, 3, 3, 3, 4, 5>>
    /\ reindex.pc = "again" => reindex.again = reindex.newClust

\* C12 witness: ids with a gap and a -1, given out of order, were reindexed
\* twice
C12_Witness ==
    /\ reindex.pc = "again"
    /\ reindex.cluster = <<4, -1, 4, 1>>
    /\ reindex.again = <<2, 0, 2, 1>>

(***************************************************************************)
(* collapse_mz_info: the rule 'max' and unknown rules                      *)
(***************************************************************************)
\* the rules a caller may name; "median" is not one collapse_mz_info knows
CollapseMethods == {"sum", "average", "max", "median"}

CollapseAnyInit == CollapseInitWith(CollapseMethods)

\* lines 667-692 for the rule 'max': np.max(intensity_) (line 687) is one
\* number over all clusters, and raises ValueError when there is no
\* cluster; "intensity_[ord]" (line 692) then indexes that number with an
\* array, which raises IndexError.
CollapseMax ==
    /\ collapse.pc = "call"
    /\ collapse.intensity_collapse_method = "max"
    /\ \E uniq \in {Unique(collapse.cluster)} :
       \E dropFirst \in {\E p \in 1..Len(uniq) : uniq[p] = -1} :
       \E clusts \in {IF dropFirst THEN Tail(uniq) ELSE uniq} :
       \E k \in {Len(clusts)} :
       \E acc \in {CollapseLoop(collapse.mz, collapse.intensity, collapse.cluster,
                                k, Len(collapse.mz))} :
       \E mz_ \in {[c \in 1..k |-> Quot(acc[1][c], acc[2][c])]} :
          IF k = 0
          THEN collapse' = [collapse EXCEPT !.pc = "ValueError"]
          ELSE collapse' = [collapse EXCEPT
                               !.mz_ = mz_,
                               !.intensity_ = <<Max(Range(acc[2])), 1>>,
                               !.pc = "IndexError"]
    /\ UNCHANGED <<crude, refine, bracket, blank, reindex, quality, consensus, normalize,
                   topn, mzshift, chrono, findclosest>>

\* lines 667-689 for any other rule: raise RuntimeError (line 689)
CollapseUnknown ==
    /\ collapse.pc = "call"
    /\ collapse.intensity_collapse_method \notin {"sum", "average", "max"}
    /\ collapse' = [collapse EXCEPT !.pc = "RuntimeError"]
    /\ UNCHANGED <<crude, refine, bracket, blank, reindex, quality, consensus, normalize,
                   topn, mzshift, chrono, findclosest>>

CollapseAnyNext == CollapseMzInfo \/ CollapseMax \/ CollapseUnknown

SpecCollapseAny == CollapseAnyInit /\ [][CollapseAnyNext]_vars

-----------------------------------------------------------------------------
\* the largest intensity of a single signal of cluster id
ColLargest(id) == Max({collapse.intensity[p] : p \in ColCluster(id)})

\* C13: with rule 'max' collapse_mz_info returns one pair per surviving
\* cluster, ascending in m/z, the intensity of a pair being the largest
\* single-signal intensity of its cluster (stated for inputs with a
\* surviving cluster).
C13_MaxPerCluster ==
    (collapse.intensity_collapse_method = "max" /\ collapse.pc # "call"
        /\ ColSurvivors # {}) =>
        /\ collapse.pc = "done"
        /\ LET k == Cardinality(ColSurvivors)
           IN  /\ Len(collapse.mz_) = k
               /\ Len(collapse.intensity_) = k
               /\ \E f \in [1..k -> ColSurvivors] :
                     /\ \A a, b \in 1..k : f[a] = f[b] => a = b
                     /\ \A c \in 1..k :
                           collapse.intensity_[c][1]
                              = ColLargest(f[c]) * collapse.intensity_[c][2]
               /\ \A a, b \in 1..k :
                     (a < b /\ ~IsNaN(collapse.mz_[b])) =>
                        /\ ~IsNaN(collapse.mz_[a])
                        /\ collapse.mz_[a][1] * collapse.mz_[b][2]
                              <= collapse.mz_[b][1] * collapse.mz_[a][2]

\* C19: a surviving cluster of total intensity zero is left out or
\* zero-filled, its m/z is never nan, and the other clusters still have
\* their weighted mean mass and aggregate intensity.
C19_ZeroTotalNoNaN ==
    collapse.pc = "done" =>
        /\ \A c \in 1..Len(collapse.mz_) : ~IsNaN(collapse.mz_[c])
        /\ \A id \in ColSurvivors :
              ColTotal(collapse.intensity, ColCluster(id)) > 0
                 => \E c \in 1..Len(collapse.mz_) : ColIsPairOf(c, id)

-----------------------------------------------------------------------------
\* C14: refine_clustering does not fragment a consistent crude cluster: an
\* input cluster of n > 1 signals whose greedy additions all stay within
\* both bounds (here: n signals of identical mass, spread 0 throughout)
\* comes out as one single sub-cluster holding all n signals.
C14_ConsistentClusterKept ==
    refine.pc = "done" =>
        \A id \in RefSplitIds :
            (\A p, q \in RefInputCluster(id) : refine.mzs[p] = refine.mzs[q])
               => /\ Cardinality(RefSubClusters(id)) = 1
                  /\ \A p, q \in RefInputCluster(id) : refine.newClusts[p] = refine.newClusts[q]

(***************************************************************************)
(* cluster_quality_check_function__peak_form and __ppmDeviationCheck       *)
(***************************************************************************)
\* largest number of signals handed to a quality filter
MaxQualitySignals == 3

QualityMzValues == {10, 11}

QualityIntensities == {0, 1}

\* the scan times of the signals: all of one spectrum, or one spectrum each
QualityTimes(n) == {[p \in 1..n |-> 1], [p \in 1..n |-> p]}

\* lines 720 and 752: cluster[cluster == clustID] = -1
RemoveClusterMutant(cluster, clustID) ==
    [p \in 1..Len(cluster) |->
        IF p = Min({q \in 1..Len(cluster) : cluster[q] = clustID}) THEN -1 ELSE cluster[p]]

RemoveCluster(cluster, clustID) ==
    [p \in 1..Len(cluster) |-> IF cluster[p] = clustID THEN -1 ELSE cluster[p]]

RECURSIVE RemoveClusters(_, _)
\* the removals of one pass over clustInds, in ascending order of the ids
RemoveClusters(cluster, ids) ==
    IF ids = {} THEN cluster
    ELSE RemoveClusters(RemoveCluster(cluster, Min(ids)), ids \ {Min(ids)})

\* lines 706 and 742: the ids clustID >= 0 of np.unique(cluster)
Checked(cluster) == {id \in Range(cluster) : id >= 0}

QualityInit ==
    /\ \E n \in 1..MaxQualitySignals :
       \E mz \in [1..n -> QualityMzValues], intensity \in [1..n -> QualityIntensities],
          time \in QualityTimes(n), cluster \in [1..n -> -1..(n - 1)] :
             quality = [pc |-> "ready", mz |-> mz, intensity |-> intensity, time |-> time,
                        cluster |-> cluster, last |-> "none", removed |-> 0]
    /\ crude = Idle
    /\ refine = Idle
    /\ collapse = Idle
    /\ bracket = Idle
    /\ blank = Idle
    /\ reindex = Idle
    /\ consensus = Idle
    /\ normalize = Idle
    /\ topn = Idle
    /\ mzshift = Idle
    /\ chrono = Idle
    /\ findclosest = Idle

\* lines 695-734: one call of the peak-form filter.  The correlation of a
\* cluster's chronogram with the reference profile (scipy, np.corrcoef) is
\* not computed: any set of the checked clusters may fall below the cutoff.
PeakFormCheck ==
    /\ quality.pc = "ready"
    /\ \E below \in SUBSET Checked(quality.cluster) :
          quality' = [quality EXCEPT !.cluster = RemoveClusters(quality.cluster, below),
                                     !.removed = Cardinality(below),
                                     !.last = "peak_form"]
    /\ UNCHANGED <<crude, refine, collapse, bracket, blank, reindex, consensus, normalize,
                   topn, mzshift, chrono, findclosest>>

\* the signals of cluster id
QualMembers(id) == {p \in 1..Len(quality.cluster) : quality.cluster[p] = id}

\* line 747: np.average(mzs, weights = ...) raises ZeroDivisionError when
\* the weights sum to zero
QualZeroWeight(id) == \A p \in QualMembers(id) : quality.intensity[p] = 0

\* lines 748-751: signals of one mass have deviation 0 (or nan for a single
\* signal), which is not above the cutoff
QualOneMass(id) == \A p, q \in QualMembers(id) : quality.mz[p] = quality.mz[q]

\* lines 737-757: one call of the ppm-deviation filter.  The weighted
\* standard deviation (np.cov) of a cluster of several masses is not
\* computed: any set of such clusters may lie above the cutoff.  The pass
\* stops at the first cluster without intensity.
PpmDeviationCheck ==
    /\ quality.pc = "ready"
    /\ \E bad \in {{id \in Checked(quality.cluster) : QualZeroWeight(id)}} :
       \E reached \in {{id \in Checked(quality.cluster) : \A b \in bad : id < b}} :
       \E above \in SUBSET {id \in reached : ~QualOneMass(id)} :
          quality' = [quality EXCEPT !.cluster = RemoveClusters(quality.cluster, above),
                                     !.removed = Cardinality(above),
                                     !.last = "ppmDeviationCheck",
                                     !.pc = IF bad = {} THEN "ready" ELSE "ZeroDivisionError"]
    /\ UNCHANGED <<crude, refine, collapse, bracket, blank, reindex, consensus, normalize,
                   topn, mzshift, chrono, findclosest>>

QualityNext == PeakFormCheck \/ PpmDeviationCheck

SpecQuality == QualityInit /\ [][QualityNext]_vars

-----------------------------------------------------------------------------
\* C15: a quality filter, whichever and however often applied, leaves mz,
\* intensity and time unchanged, leaves the ids of a cluster all unchanged
\* or sets them all to -1, and never gives a signal with id -1 another id.
C15_FilterStep ==
    /\ quality'.mz = quality.mz
    /\ quality'.intensity = quality.intensity
    /\ quality'.time = quality.time
    /\ Len(quality'.cluster) = Len(quality.cluster)
    /\ \A id \in Range(quality.cluster) :
          \/ \A p \in QualMembers(id) : quality'.cluster[p] = id
          \/ \A p \in QualMembers(id) : quality'.cluster[p] = -1
    /\ \A p \in 1..Len(quality.cluster) :
          quality.cluster[p] = -1 => quality'.cluster[p] = -1

C15_FiltersOnlyRemoveWholeClusters == [][C15_FilterStep]_vars

\* C15 witness: the ppm-deviation filter has just removed one cluster of
\* two signals of different mass and kept the other cluster
C15_Witness ==
    /\ quality.pc = "ready"
    /\ quality.last = "ppmDeviationCheck"
    /\ quality.removed = 1
    /\ quality.cluster = <<-1, -1, 2>>
    /\ quality.mz = <<10, 11, 10>>

(***************************************************************************)
(* calculate_concensus_spectra_per_sample                                  *)
(***************************************************************************)
\* largest number of signals (over all spectra) of a sample
MaxConsensusSignals == 3

\* the samples of the assay, in the order of get_sample_names()
ConsensusSampleNames == <<"s1", "s2">>

\* masses 10 and 20 are more than min_difference_ppm apart
ConsensusMzValues == {10, 20}

\* min_difference_ppm of the crude clustering
ConsensusPpm == 200000

\* the signals of one sample: any masses, intensities 1, 2, 3, ...
ConsensusSamples ==
    UNION {{[mz |-> mz, intensity |-> [p \in 1..n |-> p]] : mz \in [1..n -> ConsensusMzValues]} :
              n \in 1..MaxConsensusSignals}

ConsensusMinSignals == {1, 2}

\* cluster_quality_check_functions: both filters, each free to remove
\* nothing
ConsensusChecks == {<<"peak_form", "ppmDeviationCheck">>}

ConsensusMethods == {"sum", "max", "median"}

\* a spectrum that has not been replaced by a consensus spectrum
Raw == [raw |-> TRUE]

NoTemp == [mz |-> <<>>, intensity |-> <<>>, cluster |-> <<>>]

ConsensusInit ==
    /\ \E samples \in [1..Len(ConsensusSampleNames) -> ConsensusSamples],
          min_signals_per_cluster \in ConsensusMinSignals,
          checks \in ConsensusChecks,
          aggregation_function \in ConsensusMethods,
          exportAsFeatureML \in BOOLEAN :
             consensus = [pc |-> "sample", samples |-> samples, samplei |-> 0,
                          min_difference_ppm |-> ConsensusPpm,
                          min_signals_per_cluster |-> min_signals_per_cluster,
                          cluster_quality_check_functions |-> checks,
                          aggregation_function |-> aggregation_function,
                          exportAsFeatureML |-> exportAsFeatureML,
                          temp |-> NoTemp,
                          featureML |-> {},
                          spectra |-> [k \in 1..Len(ConsensusSampleNames) |-> Raw]]
    /\ crude = Idle
    /\ refine = Idle
    /\ collapse = Idle
    /\ bracket = Idle
    /\ blank = Idle
    /\ reindex = Idle
    /\ quality = Idle
    /\ normalize = Idle
    /\ topn = Idle
    /\ mzshift = Idle
    /\ chrono = Idle
    /\ findclosest = Idle

\* lines 803 and 821: clustNs < min_signals_per_cluster
TooSmallMutant(n, min_signals_per_cluster) == n < min_signals_per_cluster - 1

TooSmall(n, min_signals_per_cluster) == n < min_signals_per_cluster

\* lines 801-803 and 819-821: the ids of the clusters with too few signals
\* become -1; ns[temp["cluster"]] indexes the counts by the id
MinSignalsFilter(cluster, min_signals_per_cluster) ==
    LET ns == UniqueCounts(cluster)
    IN  [p \in 1..Len(cluster) |->
            IF TooSmall(ns[PyIndex(cluster[p], Len(ns))], min_signals_per_cluster)
            THEN -1 ELSE cluster[p]]

\* lines 805 and 826: the positions with temp["cluster"] >= 0, ascending
KeepInds(cluster) == SortedSeq({p \in 1..Len(cluster) : cluster[p] >= 0})

\* lines 806-811 and 827-832: array[keep]
Kept(array, keep) == [k \in 1..Len(keep) |-> array[keep[k]]]

\* the clusters a quality filter may remove (see PeakFormCheck and
\* PpmDeviationCheck; the intensities here are positive)
Removable(check, mz, cluster) ==
    IF check = "peak_form" THEN Checked(cluster)
    ELSE {id \in Checked(cluster) :
             \E p, q \in 1..Len(cluster) :
                 cluster[p] = id /\ cluster[q] = id /\ mz[p] # mz[q]}

RECURSIVE QualityOutcomes(_, _, _, _)
\* lines 822-823: the id arrays the filters checks[i..] may return
QualityOutcomes(checks, i, mz, cluster) ==
    IF i > Len(checks) THEN {cluster}
    ELSE UNION {QualityOutcomes(checks, i + 1, mz, RemoveClusters(cluster, gone)) :
                   gone \in SUBSET Removable(checks[i], mz, cluster)}

\* lines 772-814: the signals of the next sample are pooled, clustered
\* crudely, filtered by cluster size and reindexed; refine_clustering is
\* called with its default bounds and raises ValueError (np.max of an empty
\* array, line 534) when no signal is left
ConsensusCluster ==
    /\ consensus.pc = "sample"
    /\ consensus.samplei < Len(consensus.samples)
    /\ \E sample \in {consensus.samples[consensus.samplei + 1]} :
       \E mzOrd \in ArgSorts(sample.mz) :
       \E crudeIds \in {crude_cluster_mz_list(sample.mz, consensus.min_difference_ppm, mzOrd)} :
       \E cluster \in {MinSignalsFilter(crudeIds, consensus.min_signals_per_cluster)} :
       \E keep \in {KeepInds(cluster)} :
       \E temp \in {[mz |-> Kept(sample.mz, keep),
                     intensity |-> Kept(sample.intensity, keep),
                     cluster |-> reindex_cluster(Kept(cluster, keep))]} :
          IF Len(keep) = 0
          THEN /\ consensus' = [consensus EXCEPT !.temp = temp, !.pc = "ValueError"]
               /\ UNCHANGED refine
          ELSE /\ consensus' = [consensus EXCEPT !.temp = temp, !.pc = "refine"]
               /\ refine' = RefineEntry(temp.mz, temp.intensity, temp.cluster, None)
    /\ UNCHANGED <<crude, collapse, bracket, blank, reindex, quality, normalize,
                   topn, mzshift, chrono, findclosest>>

\* lines 814-875: refine_clustering has returned; reindex, filter by
\* cluster size, apply the quality filters, drop the signals with id -1,
\* reindex, write the featureML file (np.min(temp["time"]) raises
\* ValueError on an empty array, after the file has been opened) and call
\* collapse_mz_info
ConsensusFilter ==
    /\ consensus.pc = "refine"
    /\ refine.pc = "done"
    /\ \E refined \in {MinSignalsFilter(reindex_cluster(refine.newClusts),
                                        consensus.min_signals_per_cluster)} :
       \E cluster \in QualityOutcomes(consensus.cluster_quality_check_functions, 1,
                                      consensus.temp.mz, refined) :
       \E keep \in {KeepInds(cluster)} :
       \E temp \in {[mz |-> Kept(consensus.temp.mz, keep),
                     intensity |-> Kept(consensus.temp.intensity, keep),
                     cluster |-> reindex_cluster(Kept(cluster, keep))]} :
          IF consensus.exportAsFeatureML /\ Len(keep) = 0
          THEN /\ consensus' = [consensus EXCEPT
                                   !.temp = temp,
                                   !.featureML = @ \cup {consensus.samplei + 1},
                                   !.pc = "ValueError"]
               /\ UNCHANGED collapse
          ELSE /\ consensus' = [consensus EXCEPT
                                   !.temp = temp,
                                   !.featureML = IF consensus.exportAsFeatureML
                                                 THEN @ \cup {consensus.samplei + 1} ELSE @,
                                   !.pc = "collapse"]
               /\ collapse' = [pc |-> "call", mz |-> temp.mz, intensity |-> temp.intensity,
                               cluster |-> temp.cluster,
                               intensity_collapse_method |-> consensus.aggregation_function,
                               mz_ |-> <<>>, intensity_ |-> <<>>]
    /\ refine' = Idle
    /\ UNCHANGED <<crude, bracket, blank, reindex, quality, normalize,
                   topn, mzshift, chrono, findclosest>>

\* lines 875-886: collapse_mz_info has returned and the spectra of the
\* sample are replaced by the consensus spectrum, or it has raised
ConsensusReplace ==
    /\ consensus.pc = "collapse"
    /\ collapse.pc # "call"
    /\ IF collapse.pc = "done"
       THEN consensus' = [consensus EXCEPT
                             !.spectra[consensus.samplei + 1] =
                                 [mz |-> collapse.mz_, spint |-> collapse.intensity_],
                             !.samplei = consensus.samplei + 1,
                             !.pc = "sample"]
       ELSE consensus' = [consensus EXCEPT !.pc = collapse.pc]
    /\ collapse' = Idle
    /\ UNCHANGED <<crude, refine, bracket, blank, reindex, quality, normalize,
                   topn, mzshift, chrono, findclosest>>

\* line 772: the loop over the samples ends
ConsensusReturn ==
    /\ consensus.pc = "sample"
    /\ consensus.samplei >= Len(consensus.samples)
    /\ consensus' = [consensus EXCEPT !.pc = "done"]
    /\ UNCHANGED <<crude, refine, collapse, bracket, blank, reindex, quality, normalize,
                   topn, mzshift, chrono, findclosest>>

ConsensusNext ==
    \/ ConsensusCluster
    \/ RefineFor
    \/ RefineSeed
    \/ RefineGrow
    \/ ConsensusFilter
    \/ CollapseMzInfo
    \/ CollapseMax
    \/ CollapseUnknown
    \/ ConsensusReplace
    \/ ConsensusReturn

SpecConsensus == ConsensusInit /\ [][ConsensusNext]_vars

-----------------------------------------------------------------------------
\* the sample being processed
ConsSample == consensus.samples[consensus.samplei + 1]

\* signals p and q of the sample are in one crude cluster: no two
\* neighbouring masses between them are more than min_difference_ppm apart
ConsCrudeSame(mz, p, q) ==
    LET lo == Min({mz[p], mz[q]})
        hi == Max({mz[p], mz[q]})
    IN  \A x \in Range(mz) :
            (lo <= x /\ x < hi) =>
                LET y == Min({v \in Range(mz) : v > x})
                IN  (y - x) * PPM <= consensus.min_difference_ppm * x

\* the signals of the sample whose crude cluster has enough signals
ConsCrudeKept ==
    {p \in 1..Len(ConsSample.mz) :
        Cardinality({q \in 1..Len(ConsSample.mz) : ConsCrudeSame(ConsSample.mz, p, q)})
           >= consensus.min_signals_per_cluster}

\* the signals handed to refine_clustering that share the refined id of p
ConsRefined(p) == {q \in 1..Len(refine.newClusts) : refine.newClusts[q] = refine.newClusts[p]}

\* the signals of temp with id
ConsMembers(id) == {p \in 1..Len(consensus.temp.cluster) : consensus.temp.cluster[p] = id}

C16_ClusterStep ==
    (consensus.pc = "sample" /\ consensus'.pc \in {"refine", "ValueError"}) =>
        /\ consensus'.temp.mz = Kept(ConsSample.mz, SortedSeq(ConsCrudeKept))
        /\ consensus'.temp.intensity = Kept(ConsSample.intensity, SortedSeq(ConsCrudeKept))

C16_FilterStep ==
    (consensus.pc = "refine" /\ consensus'.pc \in {"collapse", "ValueError"}) =>
        \E K \in SUBSET (1..Len(refine.newClusts)) :
            /\ Len(consensus'.temp.cluster) = Cardinality(K)
            /\ \A p \in K : /\ Cardinality(ConsRefined(p)) >= consensus.min_signals_per_cluster
                            /\ ConsRefined(p) \subseteq K
            /\ \E ks \in {SortedSeq(K)} :
                  /\ consensus'.temp.mz = Kept(consensus.temp.mz, ks)
                  /\ consensus'.temp.intensity = Kept(consensus.temp.intensity, ks)
                  /\ \A a, b \in 1..Len(ks) :
                        (consensus'.temp.cluster[a] = consensus'.temp.cluster[b])
                           <=> (refine.newClusts[ks[a]] = refine.newClusts[ks[b]])

C16_ReplaceStep ==
    (consensus.pc = "collapse" /\ consensus'.pc = "sample") =>
        LET new == consensus'.spectra[consensus.samplei + 1]
        IN  /\ collapse.mz = consensus.temp.mz
            /\ collapse.intensity = consensus.temp.intensity
            /\ collapse.cluster = consensus.temp.cluster
            /\ new.mz = collapse.mz_
            /\ new.spint = collapse.intensity_
            /\ \A c \in 1..Len(new.mz) :
                  \E id \in Range(consensus.temp.cluster) :
                      /\ ColIsPairOf(c, id)
                      /\ Cardinality(ConsMembers(id)) >= consensus.min_signals_per_cluster

C16_CollapsedClusters ==
    consensus.pc = "collapse" =>
        \A id \in Range(consensus.temp.cluster) :
            id >= 0 /\ Cardinality(ConsMembers(id)) >= consensus.min_signals_per_cluster

\* C16: every pair of a consensus spectrum is collapsed from a refined
\* cluster of at least min_signals_per_cluster signals, whatever quality
\* filters are given: only signals of crude clusters with enough signals
\* reach the refinement, only whole refined clusters with enough signals
\* reach collapse_mz_info, and the new spectrum holds its pairs.
C16_ConsensusFromLargeClusters ==
    [][C16_ClusterStep /\ C16_FilterStep /\ C16_ReplaceStep]_vars /\ []C16_CollapsedClusters

\* C16 witness: three signals of one mass, at least two required: the
\* refinement made a sub-cluster of two (intensities 3 and 1) and one of a
\* single signal, and the consensus spectrum holds the pair of the first
C16_Witness ==
    /\ consensus.samplei >= 1
    /\ consensus.samples[1].mz = <<10, 10, 10>>
    /\ consensus.min_signals_per_cluster = 2
    /\ consensus.aggregation_function = "sum"
    /\ consensus.spectra[1] # Raw
    /\ consensus.spectra[1].mz = <<<<40, 4>>>>
    /\ consensus.spectra[1].spint = <<<<4, 1>>>>

\* C17: with an aggregation rule other than 'sum', 'average' and 'max' the
\* error reaches the caller before any sample has been clustered, any
\* featureML file written or any spectrum replaced.
C17_UnknownMethodFailsFast ==
    consensus.aggregation_function \notin {"sum", "average", "max"} =>
        /\ consensus.temp = NoTemp
        /\ refine = Idle
        /\ topn = Idle
        /\ mzshift = Idle
        /\ chrono = Idle
        /\ findclosest = Idle
        /\ consensus.featureML = {}
        /\ \A k \in 1..Len(consensus.spectra) : consensus.spectra[k] = Raw
        /\ consensus.pc \in {"sample", "RuntimeError"}

\* a sample with a crude cluster of at least min_signals_per_cluster signals
ConsLargeCluster(k) ==
    \E p \in 1..Len(consensus.samples[k].mz) :
        Cardinality({q \in 1..Len(consensus.samples[k].mz) :
                        ConsCrudeSame(consensus.samples[k].mz, p, q)})
           >= consensus.min_signals_per_cluster

\* C18: a sample whose processing fails (no cluster reaches
\* min_signals_per_cluster) does not halt the batch: the call ends
\* normally (stated for the rule 'sum'), and every sample with a large
\* enough cluster has got its consensus spectrum by then.
C18_FailureDoesNotHaltBatch ==
    consensus.aggregation_function = "sum" =>
        /\ consensus.pc \notin {"ValueError", "IndexError", "RuntimeError"}
        /\ consensus.pc = "done" =>
              \A k \in 1..Len(consensus.spectra) :
                  ConsLargeCluster(k) => consensus.spectra[k] # Raw

(***************************************************************************)
(* normalize_samples_by_TICs and normalize_to_internal_standard            *)
(***************************************************************************)
\* largest number of spectra of a sample
MaxNormSpectra == 2

\* the samples of the assay, in the order of get_sample_names()
NormSampleNames == <<"s1", "s2">>

NormMzValues == {10, 20}

NormIntensities == {0, 1, 3}

NormFactors == {1, 2}

\* std = (stdMZmin, stdMZmax): mass 10 is inside, mass 20 is not
NormStd == <<10, 15>>

\* a spectrum of one signal; an intensity is kept as a quotient
NormSpectrum == {[mz |-> <<m>>, spint |-> <<<<v, 1>>>>] : m \in NormMzValues, v \in NormIntensities}

NormSamples == SeqsOf(NormSpectrum, 1, MaxNormSpectra)

NormalizeInit ==
    /\ \E samples \in [1..Len(NormSampleNames) -> NormSamples],
          function \in {"normalize_samples_by_TICs", "normalize_to_internal_standard"},
          multiplication_factor \in NormFactors :
             normalize = [pc |-> "sample", function |-> function,
                          samples |-> samples, spectra |-> samples,
                          std |-> NormStd,
                          multiplication_factor |-> multiplication_factor,
                          samplei |-> 0, reported |-> {}, istdAbundance |-> <<>>]
    /\ crude = Idle
    /\ refine = Idle
    /\ collapse = Idle
    /\ bracket = Idle
    /\ blank = Idle
    /\ reindex = Idle
    /\ quality = Idle
    /\ consensus = Idle
    /\ topn = Idle
    /\ mzshift = Idle
    /\ chrono = Idle
    /\ findclosest = Idle

\* np.sum(spint) of an array of quotients with denominator 1
SpintSum(spint) == Sum([p \in 1..Len(spint) |-> spint[p][1]])

\* lines 315-317: the total intensity of all spectra of a sample
TotalInt(sample) == Sum([k \in 1..Len(sample) |-> SpintSum(sample[k].spint)])

\* line 338: np.logical_and(spectrum.mz >= stdMZmin, spectrum.mz <= stdMZmax)
InStdWindow(m, std) == m >= std[1] /\ m <= std[2]

\* lines 335-340: the intensity of the signals of a sample inside the window
TotalSTDInt(sample, std) ==
    Sum([k \in 1..Len(sample) |->
            Sum([p \in 1..Len(sample[k].mz) |->
                    IF InStdWindow(sample[k].mz[p], std) THEN sample[k].spint[p][1] ELSE 0])])

\* lines 322 and 342: the divisor is usable
CanNormalizeMutant(total) == total >= 0

CanNormalize(total) == total > 0

\* lines 324 and 345: spectrum.spint / total * multiplication_factor
Normalized(sample, total, multiplication_factor) ==
    [k \in 1..Len(sample) |->
        [sample[k] EXCEPT !.spint = [p \in 1..Len(sample[k].spint) |->
                                        <<sample[k].spint[p][1] * multiplication_factor,
                                          sample[k].spint[p][2] * total>>]]]

\* lines 312-326: one pass of the loop of normalize_samples_by_TICs
NormalizeByTIC ==
    /\ normalize.pc = "sample"
    /\ normalize.function = "normalize_samples_by_TICs"
    /\ normalize.samplei < Len(normalize.spectra)
    /\ \E k \in {normalize.samplei + 1} :
       \E totalInt \in {TotalInt(normalize.spectra[k])} :
          IF CanNormalize(totalInt)
          THEN normalize' = [normalize EXCEPT
                                !.spectra[k] = Normalized(normalize.spectra[k], totalInt,
                                                          normalize.multiplication_factor),
                                !.samplei = k]
          ELSE normalize' = [normalize EXCEPT !.reported = @ \cup {k}, !.samplei = k]
    /\ UNCHANGED <<crude, refine, collapse, bracket, blank, reindex, quality, consensus,
                   topn, mzshift, chrono, findclosest>>

\* lines 333-350: one pass of the loop of normalize_to_internal_standard
NormalizeToISTD ==
    /\ normalize.pc = "sample"
    /\ normalize.function = "normalize_to_internal_standard"
    /\ normalize.samplei < Len(normalize.spectra)
    /\ \E k \in {normalize.samplei + 1} :
       \E totalSTDInt \in {TotalSTDInt(normalize.spectra[k], normalize.std)} :
          IF CanNormalize(totalSTDInt)
          THEN normalize' = [normalize EXCEPT
                                !.spectra[k] = Normalized(normalize.spectra[k], totalSTDInt,
                                                          normalize.multiplication_factor),
                                !.istdAbundance = Append(@, totalSTDInt),
                                !.samplei = k]
          ELSE normalize' = [normalize EXCEPT !.reported = @ \cup {k}, !.samplei = k]
    /\ UNCHANGED <<crude, refine, collapse, bracket, blank, reindex, quality, consensus,
                   topn, mzshift, chrono, findclosest>>

\* lines 312 and 333: the loop over the samples ends
NormalizeReturn ==
    /\ normalize.pc = "sample"
    /\ normalize.samplei >= Len(normalize.spectra)
    /\ normalize' = [normalize EXCEPT !.pc = "done"]
    /\ UNCHANGED <<crude, refine, collapse, bracket, blank, reindex, quality, consensus,
                   topn, mzshift, chrono, findclosest>>

NormalizeNext == NormalizeByTIC \/ NormalizeToISTD \/ NormalizeReturn

SpecNormalize == NormalizeInit /\ [][NormalizeNext]_vars

-----------------------------------------------------------------------------
\* the signals <<k, p>> of the sample given to the call
NormSignals(sample) == {<<k, p>> : k \in 1..Len(sample), p \in 1..1}

RECURSIVE NormTotal(_, _, _)
\* the summed intensity of the signals S of a sample, all of them or those
\* with a mass inside the window only
NormTotal(sample, S, windowOnly) ==
    IF S = {} THEN 0
    ELSE LET s == CHOOSE x \in S : TRUE
             m == sample[s[1]].mz[s[2]]
             v == sample[s[1]].spint[s[2]][1]
         IN  (IF windowOnly /\ ~(normalize.std[1] <= m /\ m <= normalize.std[2]) THEN 0 ELSE v)
                + NormTotal(sample, S \ {s}, windowOnly)

\* the divisor of sample i
NormDivisor(i) ==
    NormTotal(normalize.samples[i], NormSignals(normalize.samples[i]),
              normalize.function = "normalize_to_internal_standard")

\* C20: on return of either normalisation no error was raised; a sample
\* whose divisor (total intensity, or intensity inside the standard's
\* window) is zero has been reported and has its intensities unchanged;
\* every other sample, before or after it, has every intensity divided by
\* its own divisor and multiplied by multiplication_factor.
C20_NormalizeSkipsBadSample ==
    /\ normalize.pc \in {"idle", "sample", "done"}
    /\ normalize.pc = "done" =>
          \A i \in 1..Len(normalize.samples) :
              IF NormDivisor(i) = 0
              THEN /\ i \in normalize.reported
                   /\ normalize.spectra[i] = normalize.samples[i]
              ELSE /\ i \notin normalize.reported
                   /\ Len(normalize.spectra[i]) = Len(normalize.samples[i])
                   /\ \A s \in NormSignals(normalize.samples[i]) :
                         /\ normalize.spectra[i][s[1]].mz = normalize.samples[i][s[1]].mz
                         /\ normalize.spectra[i][s[1]].spint[s[2]][2] # 0
                         /\ normalize.spectra[i][s[1]].spint[s[2]][1] * NormDivisor(i)
                               = normalize.samples[i][s[1]].spint[s[2]][1]
                                    * normalize.multiplication_factor
                                    * normalize.spectra[i][s[1]].spint[s[2]][2]

\* C20 witness: normalize_to_internal_standard has returned; the first
\* sample has intensity but none inside the window and was left as it was,
\* the second one was normalised by the intensity 1 of its standard, which
\* is not its total intensity
C20_Witness ==
    /\ normalize.pc = "done"
    /\ normalize.function = "normalize_to_internal_standard"
    /\ normalize.multiplication_factor = 2
    /\ normalize.reported = {1}
    /\ normalize.samples[1] = <<[mz |-> <<20>>, spint |-> <<<<3, 1>>>>]>>
    /\ normalize.spectra[1] = normalize.samples[1]
    /\ normalize.samples[2] = <<[mz |-> <<10>>, spint |-> <<<<1, 1>>>>],
                                [mz |-> <<20>>, spint |-> <<<<3, 1>>>>]>>
    /\ normalize.spectra[2][2].spint = <<<<6, 1>>>>

(***************************************************************************)
(* refine_clustering: intensities of 0 and input ids with gaps             *)
(***************************************************************************)
RefineZeroIntensities == {0, 1}

RefineZeroInit ==
    /\ \E n \in 1..MaxRefineSignals :
       \E mzs \in [1..n -> RefineMzValues], intensities \in [1..n -> RefineZeroIntensities],
          clusts \in DenseIds(n), max_mz_deviation_ppm \in RefineMaxPpm :
            refine = RefineEntry(mzs, intensities, clusts, max_mz_deviation_ppm)
    /\ crude = Idle
    /\ collapse = Idle
    /\ bracket = Idle
    /\ blank = Idle
    /\ reindex = Idle
    /\ quality = Idle
    /\ consensus = Idle
    /\ normalize = Idle
    /\ topn = Idle
    /\ mzshift = Idle
    /\ chrono = Idle
    /\ findclosest = Idle

\* the call runs on: no step of the loops is put off for ever
SpecRefineZero == RefineZeroInit /\ [][RefineNext]_vars /\ WF_vars(RefineNext)

\* a step that seeds a new sub-cluster (lines 556-560)
RefSeeds == refine.pc = "while" /\ RefUnused(refine.used) > 0

\* C23: every new sub-cluster is seeded with a signal that was unassigned,
\* which then is assigned, so that the call returns; for intensities >= 0.
C23_SeedStep ==
    RefSeeds =>
        \E c \in 1..Len(refine.used) :
            /\ refine.used[c] = 0
            /\ refine'.used[c] = 1
            /\ \A k \in 1..Len(refine.used) : k # c => refine'.used[k] = refine.used[k]

C23_RefineTerminates == [][C23_SeedStep]_vars /\ <>(refine.pc = "done")

-----------------------------------------------------------------------------
\* input ids as they are after a filter removed clusters and before
\* reindex_cluster: any ids 0..2, not every id in use
RefineGapIds == 0..2

RefineGapInit ==
    /\ \E n \in 1..MaxRefineSignals :
       \E mzs \in [1..n -> RefineMzValues], intensities \in [1..n -> RefineIntensities],
          clusts \in [1..n -> RefineGapIds], max_mz_deviation_ppm \in RefineMaxPpm :
            refine = RefineEntry(mzs, intensities, clusts, max_mz_deviation_ppm)
    /\ crude = Idle
    /\ collapse = Idle
    /\ bracket = Idle
    /\ blank = Idle
    /\ reindex = Idle
    /\ quality = Idle
    /\ consensus = Idle
    /\ normalize = Idle
    /\ topn = Idle
    /\ mzshift = Idle
    /\ chrono = Idle
    /\ findclosest = Idle

SpecRefineGap == RefineGapInit /\ [][RefineNext]_vars

\* C24: on return every signal of an input cluster with more than one
\* signal has an id made by the call, and every signal alone in its input
\* cluster has its input id; for any input ids >= 0, gaps included.
C24_RefinesByClusterSize ==
    refine.pc = "done" =>
        \A p \in 1..Len(refine.clusts) :
            IF Cardinality(RefInputCluster(refine.clusts[p])) > 1
            THEN refine.newClusts[p] \notin Range(refine.clusts)
            ELSE refine.newClusts[p] = refine.clusts[p]

-----------------------------------------------------------------------------
\* the pooled signals of the sample in row s
MatrixSignals(s) == {p \in 1..Len(bracket.mz) : bracket.sample[p] = s}

\* the sum of the cells of row s that are not nan
MatrixRowSum(s) ==
    Sum([b \in 1..Len(bracket.tempClusterInfo) |->
            IF IsNaN(bracket.dataMatrix[s][b]) THEN 0 ELSE bracket.dataMatrix[s][b][1]])

\* C25: once the data matrix is built, the windows [minMZ, maxMZ] of two
\* different brackets have no mass in common, every pooled signal lies in
\* the window of a bracket, and the cells of a sample's row that are not
\* nan add up to the total intensity of the sample's signals.
\* (Stated for the pools whose intensities are all above 1, where the seed
\* is the largest unassigned signal.)
C25_EverySignalInOneColumn ==
    (bracket.pc = "done" /\ BrAllAboveOne) =>
        /\ \A a, b \in 1..Len(bracket.tempClusterInfo) :
              a < b => \/ bracket.tempClusterInfo[a].maxMZ < bracket.tempClusterInfo[b].minMZ
                       \/ bracket.tempClusterInfo[b].maxMZ < bracket.tempClusterInfo[a].minMZ
        /\ \A p \in 1..Len(bracket.mz) :
              \E b \in 1..Len(bracket.tempClusterInfo) :
                  /\ bracket.tempClusterInfo[b].minMZ <= bracket.mz[p]
                  /\ bracket.mz[p] <= bracket.tempClusterInfo[b].maxMZ
        /\ \A s \in 1..MaxSamples : MatrixRowSum(s) = MatrixTotal(MatrixSignals(s))

-----------------------------------------------------------------------------
\* dense ids of four signals: two clusters of two signals, a cluster of
\* three next to a single signal, a cluster of two between two single ones
RefinePairIds == {<<0, 0, 1, 1>>, <<0, 1, 0, 1>>, <<0, 0, 0, 1>>, <<1, 0, 0, 2>>}

\* the inputs of RefineInit and the inputs of four signals above
RefinePairInit ==
    \/ RefineInit
    \/ /\ \E mzs \in [1..4 -> RefineMzValues], intensities \in [1..4 -> RefineIntensities],
             clusts \in RefinePairIds, max_mz_deviation_ppm \in RefineMaxPpm :
               refine = RefineEntry(mzs, intensities, clusts, max_mz_deviation_ppm)
       /\ crude = Idle
       /\ collapse = Idle
       /\ bracket = Idle
       /\ blank = Idle
       /\ reindex = Idle
       /\ quality = Idle
       /\ consensus = Idle
       /\ normalize = Idle
       /\ topn = Idle
       /\ mzshift = Idle
       /\ chrono = Idle
       /\ findclosest = Idle

SpecRefinePair == RefinePairInit /\ [][RefineNext]_vars

\* C26, one step: an id that a step writes for the seed of a new
\* sub-cluster is an id that no signal has before the step
C26_FreshStep ==
    RefSeeds =>
        \A p \in 1..Len(refine.newClusts) :
            refine'.newClusts[p] # refine.newClusts[p]
               => refine'.newClusts[p] \notin Range(refine.newClusts)

\* C26, on return: two signals with the same output id had the same input
\* id; a signal of an input cluster of more than one signal has an id
\* above the largest input id; a signal alone in its input cluster has its
\* input id.
C26_Final ==
    refine.pc = "done" =>
        /\ \A p, q \in 1..Len(refine.clusts) :
              refine.newClusts[p] = refine.newClusts[q] => refine.clusts[p] = refine.clusts[q]
        /\ \A p \in 1..Len(refine.clusts) :
              IF Cardinality(RefInputCluster(refine.clusts[p])) > 1
              THEN refine.newClusts[p] > Max(Range(refine.clusts))
              ELSE refine.newClusts[p] = refine.clusts[p]

\* C26: on dense ids and positive intensities the output is a refinement of
\* the input partition with collision-free ids: every new sub-cluster gets
\* an id above the largest input id that no other sub-cluster has, of its
\* own or of another input cluster, and single signals keep their id.
C26_RefinementWithFreshIds == [][C26_FreshStep]_vars /\ []C26_Final

\* C26 witness: two input clusters of two signals each were refined, next
\* to each other in the id space, into four sub-clusters with four ids
C26_Witness ==
    /\ refine.pc = "done"
    /\ refine.clusts = <<0, 1, 0, 1>>
    /\ Range(refine.newClusts) = {3, 4, 5, 6}
    /\ {refine.newClusts[1], refine.newClusts[3]} = {3, 4}

(***************************************************************************)
(* select_top_n_spectra                                                    *)
(***************************************************************************)
\* largest number of spectra of a sample
MaxTopSpectra == 3

\* the samples of the assay, in the order of get_sample_names()
TopSampleNames == <<"s1", "s2">>

\* np.sum(spectrum.spint) of a spectrum
TopTotalInts == {1, 2}

\* the argument n: None or a count
TopN == {None} \cup (0..(MaxTopSpectra + 1))

\* totalInt[k] is the total intensity of the k-th spectrum of the sample;
\* spectra[k] lists the spectra the sample holds, by their position before
\* the call
TopnInit ==
    /\ \E totalInt \in [1..Len(TopSampleNames) -> SeqsOf(TopTotalInts, 1, MaxTopSpectra)],
          n \in TopN :
             topn = [pc |-> "sample", n |-> n, totalInt |-> totalInt,
                     spectra |-> [s \in 1..Len(TopSampleNames) |->
                                     [k \in 1..Len(totalInt[s]) |-> k]],
                     samplei |-> 0, ordInte |-> <<>>]
    /\ crude = Idle
    /\ refine = Idle
    /\ collapse = Idle
    /\ bracket = Idle
    /\ blank = Idle
    /\ reindex = Idle
    /\ quality = Idle
    /\ consensus = Idle
    /\ normalize = Idle
    /\ mzshift = Idle
    /\ chrono = Idle
    /\ findclosest = Idle

\* the end of the slice a[0:stop] of an array of len elements: a negative
\* stop counts from the end of the array
SliceStop(len, stop) == IF stop < 0 THEN Max({0, len + stop}) ELSE Min({stop, len})

\* line 304: np.sort(ordInte)[::-1], the positions in descending order
Descending(inds) ==
    LET asc == SortedSeq(Range(inds))
    IN  [k \in 1..Len(asc) |-> asc[Len(asc) + 1 - k]]

RECURSIVE DeleteSpectra(_, _, _)
\* lines 305-308: delete_spectrum(ordInte[c]) for c = 0, 1, ...: the
\* spectrum at that position of sampleObjNew is removed
DeleteSpectra(spectra, ordInte, c) ==
    IF c > Len(ordInte) THEN spectra
    ELSE DeleteSpectra([k \in 1..(Len(spectra) - 1) |->
                           IF k < ordInte[c] THEN spectra[k] ELSE spectra[k + 1]],
                       ordInte, c + 1)

\* lines 294-309: one pass of the loop over the samples
TopnSample ==
    /\ topn.pc = "sample"
    /\ topn.samplei < Len(topn.spectra)
    /\ \E s \in {topn.samplei + 1} :
          IF topn.n # None
          THEN \E order \in ArgSorts(topn.totalInt[s]) :
               \E ordInte \in {Descending(SubSeq(order, 1,
                                  SliceStop(Len(order), Len(order) - topn.n)))} :
                  topn' = [topn EXCEPT
                              !.ordInte = ordInte,
                              !.spectra[s] = IF Len(topn.spectra[s]) > 0
                                             THEN DeleteSpectra(topn.spectra[s], ordInte, 1)
                                             ELSE topn.spectra[s],
                              !.samplei = s]
          ELSE topn' = [topn EXCEPT !.samplei = s]
    /\ UNCHANGED <<crude, refine, collapse, bracket, blank, reindex, quality, consensus, normalize,
                   mzshift, chrono, findclosest>>

\* line 294: the loop over the samples ends
TopnReturn ==
    /\ topn.pc = "sample"
    /\ topn.samplei >= Len(topn.spectra)
    /\ topn' = [topn EXCEPT !.pc = "done"]
    /\ UNCHANGED <<crude, refine, collapse, bracket, blank, reindex, quality, consensus, normalize,
                   mzshift, chrono, findclosest>>

TopnNext == TopnSample \/ TopnReturn

SpecTopn == TopnInit /\ [][TopnNext]_vars

-----------------------------------------------------------------------------
\* C27: with n not None every sample is left with min(n, N) of its N
\* spectra, no spectrum that was removed has a larger total intensity than
\* one that was kept, and a sample with N <= n spectra loses none.
C27_TopNKept ==
    (topn.pc = "done" /\ topn.n # None) =>
        \A s \in 1..Len(topn.spectra) :
            LET N == Len(topn.totalInt[s])
                kept == Range(topn.spectra[s])
            IN  /\ Len(topn.spectra[s]) = Min({topn.n, N})
                /\ Cardinality(kept) = Len(topn.spectra[s])
                /\ kept \subseteq 1..N
                /\ \A k \in kept, r \in (1..N) \ kept :
                      topn.totalInt[s][k] >= topn.totalInt[s][r]
                /\ N <= topn.n => topn.spectra[s] = [k \in 1..N |-> k]

(***************************************************************************)
(* correct_MZ_shift_across_samples: the loop over the samples              *)
(***************************************************************************)
\* largest number of m/z values of a sample's spectrum
MaxShiftSignals == 2

\* the samples of the assay, in the order of get_sample_names()
ShiftSampleNames == <<"s1", "s2">>

ShiftMzValues == {10, 20}

\* the medians that lines 445 and 448 compute per sample (pandas, on the
\* offsets get_MZ_offsets found): a ppm value or an absolute offset
ShiftFactors == {-2, 3}

\* the valid values of correctby; any other value raises at line 451
ShiftCorrectBy == {"mzDeviationPPM", "mzDeviation"}

\* transformFactors: index is the set of samples with a detected reference
\* m/z, loc their factors.  transformFactor is the local of that name and
\* bound tells whether it was assigned yet.
MzShiftInit ==
    /\ \E mz \in [1..Len(ShiftSampleNames) -> SeqsOf(ShiftMzValues, 1, MaxShiftSignals)],
          index \in SUBSET (1..Len(ShiftSampleNames)),
          loc \in [1..Len(ShiftSampleNames) -> ShiftFactors],
          correctby \in ShiftCorrectBy, verbose \in BOOLEAN, in_memory \in BOOLEAN :
             mzshift = [pc |-> "sample", correctby |-> correctby, verbose |-> verbose,
                        in_memory |-> in_memory,
                        transformFactors |-> [index |-> index, loc |-> loc],
                        input |-> mz,
                        mz |-> [s \in 1..Len(mz) |-> [p \in 1..Len(mz[s]) |-> <<mz[s][p], 1>>]],
                        original_mz |-> [s \in 1..Len(mz) |-> <<>>],
                        samplei |-> 0, transformFactor |-> 0, bound |-> FALSE,
                        reported |-> {}]
    /\ crude = Idle
    /\ refine = Idle
    /\ collapse = Idle
    /\ bracket = Idle
    /\ blank = Idle
    /\ reindex = Idle
    /\ quality = Idle
    /\ consensus = Idle
    /\ normalize = Idle
    /\ topn = Idle
    /\ chrono = Idle
    /\ findclosest = Idle

\* lines 471 and 473: the corrected m/z values of a spectrum
Corrected(mz, correctby, transformFactor) ==
    [p \in 1..Len(mz) |->
        IF correctby = "mzDeviationPPM"
        THEN <<mz[p][1] * (PPM - transformFactor), mz[p][2] * PPM>>
        ELSE <<mz[p][1] - transformFactor * mz[p][2], mz[p][2]>>]

\* lines 475-476: the line printed for every sample reads transformFactor
PrintsFactor(verbose) == verbose

\* lines 456-476: one pass of the loop over the samples
MzShiftSample ==
    /\ mzshift.pc = "sample"
    /\ mzshift.samplei < Len(mzshift.mz)
    /\ \E s \in {mzshift.samplei + 1} :
          IF mzshift.in_memory
          THEN mzshift' = [mzshift EXCEPT !.pc = "RuntimeError"]
          ELSE IF s \notin mzshift.transformFactors.index
               THEN mzshift' = [mzshift EXCEPT
                                   !.reported = @ \cup {s},
                                   !.original_mz[s] = mzshift.mz[s],
                                   !.samplei = s,
                                   !.pc = IF PrintsFactor(mzshift.verbose) /\ ~mzshift.bound
                                          THEN "UnboundLocalError" ELSE "sample"]
               ELSE mzshift' = [mzshift EXCEPT
                                   !.transformFactor = mzshift.transformFactors.loc[s],
                                   !.bound = TRUE,
                                   !.original_mz[s] = mzshift.mz[s],
                                   !.mz[s] = Corrected(mzshift.mz[s], mzshift.correctby,
                                                       mzshift.transformFactors.loc[s]),
                                   !.samplei = s]
    /\ UNCHANGED <<crude, refine, collapse, bracket, blank, reindex, quality, consensus, normalize,
                   topn, chrono, findclosest>>

\* line 456: the loop over the samples ends
MzShiftReturn ==
    /\ mzshift.pc = "sample"
    /\ mzshift.samplei >= Len(mzshift.mz)
    /\ mzshift' = [mzshift EXCEPT !.pc = "done"]
    /\ UNCHANGED <<crude, refine, collapse, bracket, blank, reindex, quality, consensus, normalize,
                   topn, chrono, findclosest>>

MzShiftNext == MzShiftSample \/ MzShiftReturn

SpecMzShift == MzShiftInit /\ [][MzShiftNext]_vars

-----------------------------------------------------------------------------
\* C28: with a valid correctby and verbose = True (on samples the type
\* test of line 458 lets pass) no pass of the loop raises; on return a
\* sample without a correction factor is reported, has its m/z values
\* unchanged and original_mz equal to them, and every sample with a factor
\* has original_mz equal to its input and every m/z corrected by its own
\* factor, wherever the samples without a factor stand in the order.
C28_UncorrectableSampleSkipped ==
    (mzshift.pc # "idle" /\ mzshift.verbose /\ ~mzshift.in_memory) =>
        /\ mzshift.pc \in {"sample", "done"}
        /\ mzshift.pc = "done" =>
              \A s \in 1..Len(mzshift.input) :
                 LET in == [p \in 1..Len(mzshift.input[s]) |-> <<mzshift.input[s][p], 1>>]
                 IN  /\ mzshift.original_mz[s] = in
                     /\ IF s \in mzshift.transformFactors.index
                        THEN /\ s \notin mzshift.reported
                             /\ mzshift.mz[s] = Corrected(in, mzshift.correctby,
                                                          mzshift.transformFactors.loc[s])
                        ELSE /\ s \in mzshift.reported
                             /\ mzshift.mz[s] = in

(***************************************************************************)
(* get_separate_chronogram_indices: automatic detection of the spots       *)
(***************************************************************************)
\* largest number of spectra of the chronogram
MaxChronoSpectra == 4

\* sum(spectrum.spint) of a spectrum; the threshold is 1
ChronoTicInts == {0, 1, 2}

ChronoThreshold == 1

\* the spectrum with index i (from 0) has time i
ChronoStartTimes == {0, 1}

ChronoEndTimes == {1, 2, MaxChronoSpectra + 1}

\* lines 78-82, for a spots file without a row of this msData_ID; indices
\* count from 0 as in the source, ticInts[i + 1] belongs to index i
ChronoInit ==
    /\ \E n \in 0..MaxChronoSpectra :
       \E ticInts \in [1..n -> ChronoTicInts],
          startTime_seconds \in ChronoStartTimes, endTime_seconds \in ChronoEndTimes :
             chrono = [pc |-> "for", ticInts |-> ticInts,
                       time |-> [k \in 1..n |-> k - 1],
                       intensityThreshold |-> ChronoThreshold,
                       startTime_seconds |-> startTime_seconds,
                       endTime_seconds |-> endTime_seconds,
                       i |-> 0, startInd |-> None, endInd |-> None,
                       separationInds |-> <<>>]
    /\ crude = Idle
    /\ refine = Idle
    /\ collapse = Idle
    /\ bracket = Idle
    /\ blank = Idle
    /\ reindex = Idle
    /\ quality = Idle
    /\ consensus = Idle
    /\ normalize = Idle
    /\ topn = Idle
    /\ mzshift = Idle
    /\ findclosest = Idle

\* line 85: inte >= intensityThreshold
AboveThresholdMutant(inte, intensityThreshold) == inte > intensityThreshold

AboveThreshold(inte, intensityThreshold) == inte >= intensityThreshold

\* lines 92 and 97: the spot appended; "Spot_%d" % len(separationInds) is
\* kept as the number it prints
NewSpot(startInd, endInd, separationInds) ==
    [startInd |-> startInd, endInd |-> endInd, name |-> Len(separationInds)]

\* lines 83-94: one pass of the loop over the spectra
ChronoSpectrum ==
    /\ chrono.pc = "for"
    /\ chrono.i < Len(chrono.ticInts)
    /\ \E inte \in {chrono.ticInts[chrono.i + 1]}, time \in {chrono.time[chrono.i + 1]} :
          IF /\ AboveThreshold(inte, chrono.intensityThreshold)
             /\ time >= chrono.startTime_seconds
             /\ time <= chrono.endTime_seconds
          THEN chrono' = [chrono EXCEPT
                             !.startInd = IF chrono.startInd = None THEN chrono.i
                                          ELSE chrono.startInd,
                             !.endInd = chrono.i,
                             !.i = chrono.i + 1]
          ELSE IF chrono.startInd # None
               THEN chrono' = [chrono EXCEPT
                                  !.separationInds =
                                      Append(@, NewSpot(chrono.startInd, chrono.endInd, @)),
                                  !.startInd = None,
                                  !.endInd = None,
                                  !.i = chrono.i + 1]
               ELSE chrono' = [chrono EXCEPT !.i = chrono.i + 1]
    /\ UNCHANGED <<crude, refine, collapse, bracket, blank, reindex, quality, consensus, normalize,
                   topn, mzshift, findclosest>>

\* lines 96-97 and 123: the spot that is open after the last spectrum is
\* appended, the spots are returned
ChronoReturn ==
    /\ chrono.pc = "for"
    /\ chrono.i >= Len(chrono.ticInts)
    /\ chrono' = [chrono EXCEPT
                     !.separationInds =
                         IF chrono.startInd # None
                         THEN Append(@, NewSpot(chrono.startInd, chrono.endInd, @))
                         ELSE @,
                     !.pc = "done"]
    /\ UNCHANGED <<crude, refine, collapse, bracket, blank, reindex, quality, consensus, normalize,
                   topn, mzshift, findclosest>>

ChronoNext == ChronoSpectrum \/ ChronoReturn

SpecChrono == ChronoInit /\ [][ChronoNext]_vars

-----------------------------------------------------------------------------
\* the spectrum with index i (from 0) belongs to a spot
ChronoInSpot(i) ==
    /\ chrono.ticInts[i + 1] >= chrono.intensityThreshold
    /\ chrono.time[i + 1] >= chrono.startTime_seconds
    /\ chrono.time[i + 1] <= chrono.endTime_seconds

\* the maximal runs <<a, b>> of consecutive spectra that belong to a spot
ChronoRuns ==
    LET n == Len(chrono.ticInts)
    IN  {r \in (0..(n - 1)) \X (0..(n - 1)) :
            /\ r[1] <= r[2]
            /\ \A i \in r[1]..r[2] : ChronoInSpot(i)
            /\ r[1] = 0 \/ ~ChronoInSpot(r[1] - 1)
            /\ r[2] = n - 1 \/ ~ChronoInSpot(r[2] + 1)}

\* C29: in automatic mode the spots returned are exactly the maximal runs
\* of consecutive spectra with total intensity >= intensityThreshold and
\* time within [startTime_seconds, endTime_seconds], a run up to the last
\* spectrum included; startInd <= endInd, the spots are disjoint and in
\* ascending order, and the spot at position i (from 0) has the name Spot_i.
C29_SpotsAreMaximalRuns ==
    chrono.pc = "done" =>
        LET spots == chrono.separationInds
        IN  /\ {<<spots[j].startInd, spots[j].endInd>> : j \in 1..Len(spots)} = ChronoRuns
            /\ Len(spots) = Cardinality(ChronoRuns)
            /\ \A j \in 1..Len(spots) :
                  /\ spots[j].startInd <= spots[j].endInd
                  /\ spots[j].name = j - 1
            /\ \A j, k \in 1..Len(spots) : j < k => spots[j].endInd < spots[k].startInd

\* C29 witness: two spots were returned, the first ended by a spectrum
\* below the threshold, the second open at the last spectrum, and a
\* spectrum above the threshold before startTime_seconds is in no spot
C29_Witness ==
    /\ chrono.pc = "done"
    /\ chrono.ticInts = <<2, 1, 0, 1>>
    /\ chrono.startTime_seconds = 1
    /\ chrono.separationInds = <<[startInd |-> 1, endInd |-> 1, name |-> 0],
                                 [startInd |-> 3, endInd |-> 3, name |-> 1]>>

(***************************************************************************)
(* utils.find_closest                                                      *)
(***************************************************************************)
\* largest number of elements of x
MaxClosestX == 3

\* largest number of query values
MaxClosestQueries == 2

ClosestXValues == {1, 2, 4}

\* query values below, between (nearer to one side, and at equal distance
\* from both sides), on and above the elements of x
ClosestQueries == {0, 2, 3, 5}

IsSortedSeq(x) == \A a, b \in 1..Len(x) : a <= b => x[a] <= x[b]

\* x and xq of find_closest; scalar tells that xq was given as a float or
\* int; with is_sorted = True x is ascending.  Indices count from 0 as in
\* the source, x[i + 1] is the element with index i.
FindClosestInit ==
    /\ \E x \in SeqsOf(ClosestXValues, 0, MaxClosestX),
          xq \in SeqsOf(ClosestQueries, 0, MaxClosestQueries),
          is_sorted \in BOOLEAN, scalar \in BOOLEAN :
             /\ is_sorted => IsSortedSeq(x)
             /\ scalar => Len(xq) = 1
             /\ findclosest = [pc |-> "call", x |-> x, xq |-> xq, scalar |-> scalar,
                               is_sorted |-> is_sorted, sorted_index |-> <<>>,
                               result |-> <<>>]
    /\ crude = Idle
    /\ refine = Idle
    /\ collapse = Idle
    /\ bracket = Idle
    /\ blank = Idle
    /\ reindex = Idle
    /\ quality = Idle
    /\ consensus = Idle
    /\ normalize = Idle
    /\ topn = Idle
    /\ mzshift = Idle
    /\ chrono = Idle

\* line 369: np.searchsorted(x, q) of an ascending x, the number of
\* elements below q
SearchSorted(x, q) == Cardinality({k \in 1..Len(x) : x[k] < q})

\* lines 377 and 382: (xq - x[ind - 1]) < (x[ind] - xq)
NearerBelowMutant(q, below, above) == (q - below) > (above - q)

NearerBelow(q, below, above) == (q - below) < (above - q)

\* lines 371-377: one index
ClosestOne(x, q) ==
    LET ind == SearchSorted(x, q)
    IN  IF ind = 0 THEN ind
        ELSE IF ind = Len(x) THEN ind - 1
        ELSE ind - (IF NearerBelow(q, x[ind], x[ind + 1]) THEN 1 ELSE 0)

\* lines 380-385: an array of more than one index
ClosestMany(x, xq) ==
    LET ind == [j \in 1..Len(xq) |-> SearchSorted(x, xq[j])]
        mask == [j \in 1..Len(xq) |-> ind[j] > 0 /\ ind[j] < Len(x)]
        moved == [j \in 1..Len(xq) |->
                     IF mask[j] /\ NearerBelow(xq[j], x[ind[j]], x[ind[j] + 1])
                     THEN ind[j] - 1 ELSE ind[j]]
    IN  [j \in 1..Len(xq) |-> IF moved[j] = Len(x) THEN Len(x) - 1 ELSE moved[j]]

\* lines 362-385: _find_closest_sorted, the value returned
FindClosestSorted(x, xq) ==
    IF Len(xq) = 1 THEN <<ClosestOne(x, xq[1])>> ELSE ClosestMany(x, xq)

\* lines 365-367: x or xq is empty
RaisesValueError(x, xq) == Len(x) = 0 \/ Len(xq) = 0

\* lines 388-395: find_closest; sorted_index is what np.argsort(x) returned
FindClosest ==
    /\ findclosest.pc = "call"
    /\ \E order \in ArgSorts(findclosest.x) :
       \E sorted_index \in {[k \in 1..Len(order) |-> order[k] - 1]} :
       \E x \in {IF findclosest.is_sorted THEN findclosest.x
                 ELSE [k \in 1..Len(order) |-> findclosest.x[order[k]]]} :
          IF RaisesValueError(x, findclosest.xq)
          THEN findclosest' = [findclosest EXCEPT !.pc = "ValueError"]
          ELSE \E closest_index \in {FindClosestSorted(x, findclosest.xq)} :
                  findclosest' = [findclosest EXCEPT
                      !.sorted_index = IF findclosest.is_sorted THEN <<>> ELSE sorted_index,
                      !.result = IF findclosest.is_sorted THEN closest_index
                                 ELSE [j \in 1..Len(closest_index) |->
                                          sorted_index[closest_index[j] + 1]],
                      !.pc = "done"]
    /\ UNCHANGED <<crude, refine, collapse, bracket, blank, reindex, quality, consensus, normalize,
                   topn, mzshift, chrono>>

FindClosestNext == FindClosest

SpecFindClosest == FindClosestInit /\ [][FindClosestNext]_vars

-----------------------------------------------------------------------------
\* C30: for a non-empty x (ascending when is_sorted) and every query value
\* the index returned is an index of the x given by the caller at which x
\* is at least as near to the query as at every other index; an empty x or
\* an empty query raises ValueError, and nothing else does.
C30_ClosestIndex ==
    /\ findclosest.pc = "ValueError" <=>
          (findclosest.pc \notin {"idle", "call"}
             /\ (Len(findclosest.x) = 0 \/ Len(findclosest.xq) = 0))
    /\ findclosest.pc = "done" =>
          /\ Len(findclosest.result) = Len(findclosest.xq)
          /\ \A j \in 1..Len(findclosest.xq) :
                /\ findclosest.result[j] \in 0..(Len(findclosest.x) - 1)
                /\ \A k \in 1..Len(findclosest.x) :
                      Abs(findclosest.x[findclosest.result[j] + 1] - findclosest.xq[j])
                         <= Abs(findclosest.x[k] - findclosest.xq[j])

\* C30 witness: an unsorted x was searched for a value at equal distance
\* from two elements and for a value below all elements; the indices
\* returned are positions of the x as given
C30_Witness ==
    /\ findclosest.pc = "done"
    /\ ~findclosest.is_sorted
    /\ findclosest.x = <<4, 1, 2>>
    /\ findclosest.xq = <<3, 0>>
    /\ findclosest.result = <<0, 1>>

====
